---- MODULE Spec2Model ----
(***************************************************************************)
(* A model of jellyfin-collection: the aggregation / filter / match /      *)
(* reconcile pipeline of CollectionBuilder and the orchestration of        *)
(* Runner.run, with the collaborators (Jellyfin, providers, acquisition    *)
(* managers, Discord) reduced to the state and the outcomes the pipeline   *)
(* observes.                                                               *)
(***************************************************************************)
EXTENDS Integers, Sequences, FiniteSets, TLC

VARIABLES
    items,          \* _fetch_items: the concatenated provider results
    unique_items,   \* _fetch_items: the deduplicated result
    filtered,       \* _apply_filters: its result
    config,         \* the CollectionConfig being built
    schedule,       \* the CollectionSchedule handed to _should_run_today
    today,          \* datetime.now() as [month, day, weekday]
    gate_result,    \* what _should_run_today returned
    phase,          \* which function has run in the single-function specifications
    jellyfin,       \* the Jellyfin server: library listing and collections (BoxSets)
    radarr,         \* RadarrClient (its cached tag id) and the Radarr server behind it
    sonarr,         \* SonarrClient and the Sonarr server behind it
    dry_run,        \* CollectionBuilder.dry_run
    collection,     \* the Collection build_collection returned
    sync,           \* sync_collection's locals and outcome in its last call
    calls,          \* the Jellyfin collection calls issued by the last build and sync
    arr_requests,   \* the add_movie / add_series calls issued by the last sync
    failed,         \* the collaborator calls that failed in the last build and sync
    pc,             \* Runner.run: where the coroutine stands
    lib_idx,        \* Runner.run: the library the outer for loop is at
    cfg_idx,        \* Runner.run: the collection the inner for loop is at
    stats,          \* Runner.run: the statistics dictionary
    scheduled,      \* Runner.run(scheduled=...)
    webhook,        \* how the Discord webhook answers a POST, "none" with no URL configured
    libraries,      \* Runner.run(libraries=...), <<>> for None
    collections,    \* Runner.run(collections=...), <<>> for None
    all_collections,\* Runner.run: the parsed collections after the library filter
    library_id_map, \* Runner.run: library name -> Jellyfin id
    notifications,  \* the notifications requested from DiscordWebhook, in order
    gate_calls,     \* the collections _should_run_today was called for
    outcomes,       \* per collection: none, filtered, gated, ok (synced) or error
    lib_outcomes,   \* per library: none, resolved or unresolved
    fetches,        \* the provider sources the last build fetched, in order
    scheduler,      \* Scheduler._scheduler: the AsyncIOScheduler and the jobs it holds
    jobs,           \* Scheduler._jobs: job name -> job id
    job_call        \* the last add_cron_job / remove_job call and how it ended

pureVars == <<items, unique_items, filtered, config, schedule, today, gate_result, phase>>

syncVars == <<jellyfin, radarr, sonarr, dry_run, collection, sync, calls, arr_requests,
              failed>>

runVars == <<pc, lib_idx, cfg_idx, stats, scheduled, webhook, libraries, collections,
             all_collections,
             library_id_map, notifications, gate_calls, outcomes, lib_outcomes, fetches>>

schedVars == <<scheduler, jobs, job_call>>

vars == <<pureVars, syncVars, runVars, schedVars>>

-----------------------------------------------------------------------------
(* Python values *)

\* None, for the Optional[int] fields (year, tmdb_id, tvdb_id, vote_*, limit, ...)
None == -1

\* None, for the Optional[str] fields (original_country, day_of_week, tags, ...)
NoneStr == "None"

\* bool(x) of an Optional[int]: None and 0 are falsy
\* the one element of a singleton: a value computed once
Only(S) == CHOOSE x \in S : TRUE

\* the elements of a finite set, in some order
RECURSIVE SetToSeq(_)
SetToSeq(S) ==
    IF S = {} THEN <<>>
    ELSE LET x == CHOOSE y \in S : TRUE IN <<x>> \o SetToSeq(S \ {x})

Truthy(x) == x # None /\ x # 0

\* bool(s) of an Optional[str]: None and "" are falsy
TruthyStr(s) == s # NoneStr /\ s # ""

Min(a, b) == IF a <= b THEN a ELSE b

-----------------------------------------------------------------------------
(* Bounds *)

\* longest provider sequence of the single-function specifications
MaxItems == 3

\* largest configured size limit
MaxLimit == 2

-----------------------------------------------------------------------------
(* MediaItem values the providers return.  Two records share the TMDb      *)
(* identifier 603 with different metadata (the same title as two providers *)
(* describe it); one record carries no TMDb identifier.                    *)

MkItem(t, y, tm, tv, va, vc, oc) ==
    [title |-> t, year |-> y, tmdb_id |-> tm, tvdb_id |-> tv,
     vote_average |-> va, vote_count |-> vc, original_country |-> oc]

ItemA    == MkItem("A",  2019, 603,  None, 8,    500,  "US")
ItemA2   == MkItem("A2", 2020, 603,  None, 0,    0,    "FR")
ItemB    == MkItem("B",  None, 604,  None, None, None, NoneStr)
ItemC    == MkItem("C",  2021, 605,  None, 4,    100,  "FR")
ItemD    == MkItem("D",  2020, None, None, 5,    50,   "US")
ItemE    == MkItem("E",  2020, 606,  None, 7,    0,    "US")

ItemPool == {ItemA, ItemA2, ItemB, ItemC, ItemD, ItemE}

\* every sequence over S of length at most n
SeqsUpTo(S, n) == UNION {[1..k -> S] : k \in 0..n}

-----------------------------------------------------------------------------
(* CollectionBuilder._fetch_items, the deduplication loop *)

RECURSIVE DedupeFrom(_, _, _, _)
DedupeFrom(its, i, seen_ids, acc) ==
    IF i > Len(its) THEN acc
    ELSE LET item == its[i] IN
         IF Truthy(item.tmdb_id) /\ item.tmdb_id \notin seen_ids
         THEN DedupeFrom(its, i + 1, seen_ids \cup {item.tmdb_id}, Append(acc, item))
         ELSE DedupeFrom(its, i + 1, seen_ids, acc)

\* a deduplication whose later copy replaces the kept one (last occurrence wins)
RECURSIVE DedupeLastWins(_, _, _, _)
DedupeLastWins(its, i, seen_ids, acc) ==
    IF i > Len(its) THEN acc
    ELSE LET item == its[i] IN
         IF ~Truthy(item.tmdb_id) THEN DedupeLastWins(its, i + 1, seen_ids, acc)
         ELSE IF item.tmdb_id \notin seen_ids
         THEN DedupeLastWins(its, i + 1, seen_ids \cup {item.tmdb_id}, Append(acc, item))
         ELSE DedupeLastWins(its, i + 1, seen_ids,
                  [k \in 1..Len(acc) |->
                      IF acc[k].tmdb_id = item.tmdb_id THEN item ELSE acc[k]])

DedupeMutant(its) == DedupeLastWins(its, 1, {}, <<>>)

\* a deduplication that compares an item only with the one kept just before it
RECURSIVE DedupeAdjacent(_, _, _)
DedupeAdjacent(its, i, acc) ==
    IF i > Len(its) THEN acc
    ELSE LET item == its[i] IN
         IF Truthy(item.tmdb_id) /\ (acc = <<>> \/ acc[Len(acc)].tmdb_id # item.tmdb_id)
         THEN DedupeAdjacent(its, i + 1, Append(acc, item))
         ELSE DedupeAdjacent(its, i + 1, acc)

DedupeAdjacentMutant(its) == DedupeAdjacent(its, 1, <<>>)

Dedupe(its) == DedupeFrom(its, 1, {}, <<>>)

-----------------------------------------------------------------------------
(* CollectionBuilder._apply_filters *)

NoFilters ==
    [year_gte |-> None, year_lte |-> None, vote_average_gte |-> None,
     critic_rating_gte |-> None, tmdb_vote_count_gte |-> None,
     country_not |-> {}, origin_country_not |-> {}]

\* the loop body: FALSE where the code reaches a `continue`
Keeps(item, filters) ==
    /\ ~(Truthy(filters.year_gte) /\ Truthy(item.year) /\ item.year < filters.year_gte)
    /\ ~(Truthy(filters.year_lte) /\ Truthy(item.year) /\ item.year > filters.year_lte)
    /\ ~(Truthy(filters.vote_average_gte) /\ Truthy(item.vote_average)
            /\ item.vote_average < filters.vote_average_gte)
    /\ ~(Truthy(filters.critic_rating_gte) /\ Truthy(item.vote_average)
            /\ item.vote_average < filters.critic_rating_gte)
    /\ ~(Truthy(filters.tmdb_vote_count_gte) /\ Truthy(item.vote_count)
            /\ item.vote_count < filters.tmdb_vote_count_gte)
    /\ ~(filters.country_not # {} /\ TruthyStr(item.original_country)
            /\ item.original_country \in filters.country_not)
    /\ ~(filters.origin_country_not # {} /\ TruthyStr(item.original_country)
            /\ item.original_country \in filters.origin_country_not)

\* filtered[: config.limit]
Truncate(s, limit) == SubSeq(s, 1, Min(limit, Len(s)))

\* a truncation applied before the filter loop instead of after it
ApplyFiltersMutant(its, cfg) ==
    LET cut == IF Truthy(cfg.limit) THEN Truncate(its, cfg.limit) ELSE its
    IN SelectSeq(cut, LAMBDA item : Keeps(item, cfg.filters))

ApplyFilters(its, cfg) ==
    LET kept == SelectSeq(its, LAMBDA item : Keeps(item, cfg.filters))
    IN IF Truthy(cfg.limit) THEN Truncate(kept, cfg.limit) ELSE kept

-----------------------------------------------------------------------------
(* Runner._should_run_today *)

\* datetime.strftime("%A") of a date whose weekday() is wd (Monday = 0)
WeekdayName(wd) ==
    <<"Monday", "Tuesday", "Wednesday", "Thursday", "Friday", "Saturday", "Sunday">>[wd + 1]

\* str.lower() on the strings that occur as weekday names
Lower(s) ==
    CASE s \in {"Monday", "MONDAY", "monday"} -> "monday"
      [] s \in {"Tuesday", "tuesday"} -> "tuesday"
      [] s \in {"Wednesday", "wednesday"} -> "wednesday"
      [] s \in {"Thursday", "thursday"} -> "thursday"
      [] s \in {"Friday", "FRIDAY", "friday"} -> "friday"
      [] s \in {"Saturday", "saturday"} -> "saturday"
      [] s \in {"Sunday", "SUNDAY", "sunday"} -> "sunday"
      [] OTHER -> s

\* a gate whose weekly default is Monday and whose monthly test ignores the default
ShouldRunTodayMutant(sched, now) ==
    IF sched.schedule_type = "daily" THEN TRUE
    ELSE IF sched.schedule_type = "never" THEN FALSE
    ELSE IF sched.schedule_type = "weekly"
         THEN Lower(WeekdayName(now.weekday))
                 = Lower(IF TruthyStr(sched.day_of_week) THEN sched.day_of_week ELSE "monday")
    ELSE IF sched.schedule_type = "monthly"
         THEN now.day = sched.day_of_month
    ELSE TRUE

ShouldRunToday(sched, now) ==
    IF sched.schedule_type = "daily" THEN TRUE
    ELSE IF sched.schedule_type = "never" THEN FALSE
    ELSE IF sched.schedule_type = "weekly"
         THEN Lower(WeekdayName(now.weekday))
                 = Lower(IF TruthyStr(sched.day_of_week) THEN sched.day_of_week ELSE "sunday")
    ELSE IF sched.schedule_type = "monthly"
         THEN now.day = (IF Truthy(sched.day_of_month) THEN sched.day_of_month ELSE 1)
    ELSE TRUE

-----------------------------------------------------------------------------
(* Configurations and dates the single-function specifications draw from *)

DailySchedule == [schedule_type |-> "daily", day_of_week |-> NoneStr, day_of_month |-> None]

BaseConfig ==
    [name |-> "Base", schedule |-> DailySchedule, filters |-> NoFilters, limit |-> None,
     summary |-> NoneStr, sort_title |-> NoneStr,
     item_radarr_tag |-> NoneStr, item_sonarr_tag |-> NoneStr,
     tmdb_trending_weekly |-> None, tmdb_trending_daily |-> None, tmdb_popular |-> None,
     tmdb_discover |-> None, trakt_trending |-> None, trakt_popular |-> None,
     trakt_chart |-> None,
     \* the source keys in the order the definition file writes them
     declared |-> <<>>]

FilterSpecs ==
    { NoFilters,
      [NoFilters EXCEPT !.year_gte = 2020],
      [NoFilters EXCEPT !.year_lte = 2020],
      [NoFilters EXCEPT !.vote_average_gte = 5],
      [NoFilters EXCEPT !.critic_rating_gte = 5],
      [NoFilters EXCEPT !.tmdb_vote_count_gte = 100],
      [NoFilters EXCEPT !.country_not = {"FR"}],
      [NoFilters EXCEPT !.origin_country_not = {"FR"}],
      [NoFilters EXCEPT !.year_gte = 2020, !.tmdb_vote_count_gte = 100] }

Limits == {None} \cup (1..MaxLimit)

BuildConfigs ==
    {[BaseConfig EXCEPT !.filters = f, !.limit = l] : f \in FilterSpecs, l \in Limits}

MonthLen(m) == IF m = 2 THEN 29 ELSE IF m \in {4, 6, 9, 11} THEN 30 ELSE 31

Todays ==
    {d \in [month : 1..12, day : 1..31, weekday : 0..6] : d.day <= MonthLen(d.month)}

Schedules ==
    {[schedule_type |-> "daily", day_of_week |-> NoneStr, day_of_month |-> None],
     [schedule_type |-> "never", day_of_week |-> NoneStr, day_of_month |-> None]}
    \cup {[schedule_type |-> "weekly", day_of_week |-> w, day_of_month |-> None] :
            w \in {NoneStr, "", "sunday", "Monday", "FRIDAY", "wednesday", "sun"}}
    \cup {[schedule_type |-> "monthly", day_of_week |-> NoneStr, day_of_month |-> d] :
            d \in {None, 1, 15, 29, 30, 31}}

SomeToday == [month |-> 1, day |-> 1, weekday |-> 6]

-----------------------------------------------------------------------------
(* Collaborator outcomes.  "raise" is an exception out of the call (a       *)
(* transport error, or raise_for_status on an error status); "status" is an *)
(* error status that the client turns into a return value.                  *)

Faults ==
    {<<"fetch_1", "raise">>, <<"fetch_2", "raise">>, <<"find_in_library", "raise">>,
     <<"get_collections", "raise">>, <<"create_collection", "raise">>,
     <<"get_collection_items", "raise">>,
     <<"add_to_collection", "status">>, <<"add_to_collection", "raise">>,
     <<"remove_from_collection", "status">>, <<"remove_from_collection", "raise">>,
     <<"get_collection", "status">>, <<"get_collection", "raise">>,
     <<"update_item", "status">>, <<"update_item", "raise">>,
     <<"arr_get", "raise">>, <<"arr_lookup", "status">>,
     <<"arr_post", "status">>, <<"arr_post", "raise">>}

\* how many collaborator calls misbehave while one collection is processed
MaxFaults == 1

RECURSIVE PlansUpTo(_)
PlansUpTo(n) ==
    IF n = 0 THEN {{}}
    ELSE LET fewer == PlansUpTo(n - 1)
         IN fewer \cup {plan \cup {f} : plan \in fewer, f \in Faults}

FaultPlans == PlansUpTo(MaxFaults)

Mode(plan, call) ==
    IF <<call, "raise">> \in plan THEN "raise"
    ELSE IF <<call, "status">> \in plan THEN "status"
    ELSE "ok"

MinOf(S) == CHOOSE x \in S : \A y \in S : x <= y

-----------------------------------------------------------------------------
(* CollectionBuilder.sync_collection.  A call record r carries the          *)
(* collaborators' state, the calls issued so far, the locals of the call    *)
(* and whether an exception is propagating.                                 *)

StartCall(jf, ra, so) ==
    [jellyfin |-> jf, radarr |-> ra, sonarr |-> so,
     calls |-> <<>>, arr_requests |-> <<>>,
     raised |-> FALSE, returned |-> FALSE, diffed |-> FALSE, failed |-> {},
     jellyfin_id |-> 0, current_ids |-> {}, target_ids |-> {},
     to_add |-> {}, to_remove |-> {}, result |-> <<0, 0>>]

Called(r, op, coll, ids) ==
    [r EXCEPT !.calls = Append(@, [op |-> op, coll |-> coll, ids |-> ids])]

Raised(r) == [r EXCEPT !.raised = TRUE]

\* the call raised (transport error or raise_for_status)
RaisedIn(r, call) == [r EXCEPT !.raised = TRUE, !.failed = @ \cup {<<call, "raise">>}]

\* the call was answered with an error status that the client does not raise for
Refused(r, call) == [r EXCEPT !.failed = @ \cup {<<call, "status">>}]

\* the BoxSet JellyfinClient.create_collection(name) creates: no members
NewBoxSet(id, name) ==
    [Id |-> id, Name |-> name, Library |-> NoneStr, Items |-> {},
     Overview |-> NoneStr, SortName |-> NoneStr]

\* get_collections() and the lookup by name, else create_collection(name)
ResolveHandle(r, coll, plan) ==
    IF r.raised THEN r
    ELSE
    LET boxsets == r.jellyfin.collections
        found == {i \in 1..Len(boxsets) : boxsets[i].Name = coll.config.name}
        r1 == Called(r, "get_collections", 0, {})
        r2 == Called(r1, "create_collection", 0, {})
    IN IF Mode(plan, "get_collections") # "ok" THEN RaisedIn(r1, "get_collections")
       ELSE IF found # {} THEN [r1 EXCEPT !.jellyfin_id = boxsets[MinOf(found)].Id]
       ELSE IF Mode(plan, "create_collection") # "ok" THEN RaisedIn(r2, "create_collection")
       ELSE [r2 EXCEPT !.jellyfin.collections =
                            Append(@, NewBoxSet(Len(boxsets) + 1, coll.config.name)),
                       !.jellyfin_id = Len(boxsets) + 1]

\* current_ids = set(get_collection_items(collection.jellyfin_id))
ReadCurrent(r, plan) ==
    IF r.raised THEN r
    ELSE
    LET r1 == Called(r, "get_collection_items", r.jellyfin_id, {})
    IN IF Mode(plan, "get_collection_items") # "ok"
       THEN RaisedIn(r1, "get_collection_items")
       ELSE [r1 EXCEPT !.current_ids = r.jellyfin.collections[r.jellyfin_id].Items]

\* a target set that takes the identifier field of every item, matched or not
TargetIdsMutant(coll) == {coll.items[i].jellyfin_id : i \in 1..Len(coll.items)}

\* {item.jellyfin_id for item in collection.items if item.jellyfin_id}
TargetIds(coll) ==
    {coll.items[i].jellyfin_id :
        i \in {k \in 1..Len(coll.items) : TruthyStr(coll.items[k].jellyfin_id)}}

\* an addition set that is the whole target
ToAddMutant(target, current) == target

ToAdd(target, current) == target \ current

\* a removal set that is the whole current membership
ToRemoveMutant(target, current) == current

ToRemove(target, current) == current \ target

ComputeChanges(r, coll) ==
    IF r.raised THEN r
    ELSE [r EXCEPT !.target_ids = TargetIds(coll),
                   !.to_add = ToAdd(TargetIds(coll), r.current_ids),
                   !.to_remove = ToRemove(TargetIds(coll), r.current_ids),
                   !.diffed = TRUE]

\* an addition that calls add_to_collection once per identifier
ApplyAddMutant(r, plan) ==
    IF r.raised \/ r.to_add = {} THEN r
    ELSE LET ids == SetToSeq(r.to_add)
         IN [r EXCEPT !.calls = @ \o [i \in 1..Len(ids) |->
                                         [op |-> "add_to_collection",
                                          coll |-> r.jellyfin_id, ids |-> {ids[i]}]],
                      !.jellyfin.collections[r.jellyfin_id].Items = @ \cup r.to_add]

\* if to_add: JellyfinClient.add_to_collection
ApplyAdd(r, plan) ==
    IF r.raised \/ r.to_add = {} THEN r
    ELSE
    LET r1 == Called(r, "add_to_collection", r.jellyfin_id, r.to_add)
        mode == Mode(plan, "add_to_collection")
    IN IF mode = "raise" THEN RaisedIn(r1, "add_to_collection")
       ELSE IF mode = "status" THEN Refused(r1, "add_to_collection")
       ELSE [r1 EXCEPT !.jellyfin.collections[r.jellyfin_id].Items = @ \cup r.to_add]

\* if to_remove: JellyfinClient.remove_from_collection
ApplyRemove(r, plan) ==
    IF r.raised \/ r.to_remove = {} THEN r
    ELSE
    LET r1 == Called(r, "remove_from_collection", r.jellyfin_id, r.to_remove)
        mode == Mode(plan, "remove_from_collection")
    IN IF mode = "raise" THEN RaisedIn(r1, "remove_from_collection")
       ELSE IF mode = "status" THEN Refused(r1, "remove_from_collection")
       ELSE [r1 EXCEPT !.jellyfin.collections[r.jellyfin_id].Items = @ \ r.to_remove]

\* JellyfinClient.update_collection_metadata(id, overview=summary, sort_name=sort_title)
UpdateMetadata(r, coll, plan) ==
    IF r.raised THEN r
    ELSE
    LET id == r.jellyfin_id
        r1 == Called(r, "get_collection", id, {})
        r2 == Called(r1, "update_item", id, {})
        overview == coll.config.summary
        sort_name == coll.config.sort_title
        box == r.jellyfin.collections[id]
        edited == [box EXCEPT
                     !.Overview = IF TruthyStr(overview) THEN overview ELSE @,
                     !.SortName = IF TruthyStr(sort_name) THEN sort_name ELSE @]
    IN IF Mode(plan, "get_collection") = "raise" THEN RaisedIn(r1, "get_collection")
       ELSE IF Mode(plan, "get_collection") = "status" THEN Refused(r1, "get_collection")
       ELSE IF Mode(plan, "update_item") = "raise" THEN RaisedIn(r2, "update_item")
       ELSE IF Mode(plan, "update_item") = "status" THEN Refused(r2, "update_item")
       ELSE [r2 EXCEPT !.jellyfin.collections[id] = edited]

-----------------------------------------------------------------------------
(* RadarrClient / SonarrClient: get_or_create_tag and add_movie / add_series. *)
(* Both clients have the same shape; arr is [installed, default_tag, tag_id   *)
(* (the cached _tag_id), tags (the server's labels, id = position), titles].  *)

GetOrCreateTag(arr, name, plan) ==
    IF Truthy(arr.tag_id) THEN [arr |-> arr, tag_id |-> arr.tag_id, raised |-> FALSE]
    ELSE
    LET hits == {i \in 1..Len(arr.tags) : Lower(arr.tags[i]) = Lower(name)}
    IN IF hits # {}
       THEN [arr |-> [arr EXCEPT !.tag_id = MinOf(hits)],
             tag_id |-> MinOf(hits), raised |-> FALSE]
       ELSE IF Mode(plan, "arr_post") # "ok"
       THEN [arr |-> arr, tag_id |-> None, raised |-> TRUE]
       ELSE [arr |-> [arr EXCEPT !.tags = Append(@, name), !.tag_id = Len(arr.tags) + 1],
             tag_id |-> Len(arr.tags) + 1, raised |-> FALSE]

\* add_movie / add_series returned None
NoRecord == [id |-> None, tags |-> {}]

\* the manager's record of a registered title
RecordOf(arr, ext_id) == CHOOSE t \in arr.titles : t.id = ext_id

\* the POST calls get_or_create_tag issues for a name: one when it creates the tag
TagPosts(arr, name) ==
    IF Truthy(arr.tag_id) \/ \E i \in 1..Len(arr.tags) : Lower(arr.tags[i]) = Lower(name)
    THEN 0 ELSE 1

\* an add_movie / add_series without the movie_exists / series_exists test
ArrAddMutant(arr, ext_id, tag, plan) ==
    LET tg == GetOrCreateTag(arr, IF TruthyStr(tag) THEN tag ELSE arr.default_tag, plan)
    IN [arr |-> [tg.arr EXCEPT !.titles = {t \in @ : t.id # ext_id}
                                          \cup {[id |-> ext_id, tags |-> {tg.tag_id}]}],
        raised |-> FALSE, failed |-> {},
        result |-> [id |-> ext_id, tags |-> {tg.tag_id}],
        posts |-> 1 + TagPosts(arr, IF TruthyStr(tag) THEN tag ELSE arr.default_tag)]

\* add_movie(tmdb_id, tags=[tag] if tag else None) / add_series(tvdb_id, tags=...):
\* what it leaves in the manager, what it returns and how many POST calls it issued
ArrAdd(arr, ext_id, tag, plan) ==
    IF Mode(plan, "arr_get") = "raise"
    THEN [arr |-> arr, raised |-> TRUE, failed |-> {<<"arr_get", "raise">>},
          result |-> NoRecord, posts |-> 0]
    ELSE IF \E t \in arr.titles : t.id = ext_id
    THEN [arr |-> arr, raised |-> FALSE, failed |-> {},
          result |-> RecordOf(arr, ext_id), posts |-> 0]
    ELSE IF Mode(plan, "arr_lookup") = "status"
    THEN [arr |-> arr, raised |-> FALSE, failed |-> {<<"arr_lookup", "status">>},
          result |-> NoRecord, posts |-> 0]
    ELSE
    LET name == IF TruthyStr(tag) THEN tag ELSE arr.default_tag
        tg == GetOrCreateTag(arr, name, plan)
        mode == Mode(plan, "arr_post")
    IN IF tg.raised
       THEN [arr |-> tg.arr, raised |-> TRUE, failed |-> {<<"arr_post", mode>>},
             result |-> NoRecord, posts |-> 1]
       ELSE IF mode = "raise"
       THEN [arr |-> tg.arr, raised |-> TRUE, failed |-> {<<"arr_post", mode>>},
             result |-> NoRecord, posts |-> TagPosts(arr, name) + 1]
       ELSE IF mode = "status"
       THEN [arr |-> tg.arr, raised |-> FALSE, failed |-> {<<"arr_post", "status">>},
             result |-> NoRecord, posts |-> TagPosts(arr, name) + 1]
       ELSE [arr |-> [tg.arr EXCEPT !.titles =
                          @ \cup {[id |-> ext_id, tags |-> {tg.tag_id}]}],
             raised |-> FALSE, failed |-> {},
             result |-> [id |-> ext_id, tags |-> {tg.tag_id}],
             posts |-> TagPosts(arr, name) + 1]

-----------------------------------------------------------------------------
(* CollectionBuilder._add_missing_to_arr *)

\* a dispatch that sends every missing item to Radarr, whatever the kind
AddOneMissingMutant(r, item, is_series, tag, plan) ==
    LET a == ArrAdd(r.radarr, item.tmdb_id, tag, plan)
    IN [r EXCEPT !.radarr = a.arr, !.raised = a.raised, !.failed = @ \cup a.failed,
                 !.arr_requests = Append(@, [manager |-> "radarr",
                                             id |-> item.tmdb_id, tag |-> tag,
                                             result |-> a.result, posts |-> a.posts,
                                             raised |-> a.raised])]

\* a dispatch that derives the kind from each item instead of the first one
AddOneMissingPerItemMutant(r, item, is_series, tag, plan) ==
    IF item.tvdb_id # None /\ r.sonarr.installed
    THEN LET a == ArrAdd(r.sonarr, item.tvdb_id, tag, plan)
         IN [r EXCEPT !.sonarr = a.arr, !.raised = a.raised, !.failed = @ \cup a.failed,
                      !.arr_requests = Append(@, [manager |-> "sonarr",
                                                  id |-> item.tvdb_id, tag |-> tag,
                                                  result |-> a.result, posts |-> a.posts,
                                                  raised |-> a.raised])]
    ELSE IF item.tvdb_id = None /\ r.radarr.installed /\ Truthy(item.tmdb_id)
    THEN LET a == ArrAdd(r.radarr, item.tmdb_id, tag, plan)
         IN [r EXCEPT !.radarr = a.arr, !.raised = a.raised, !.failed = @ \cup a.failed,
                      !.arr_requests = Append(@, [manager |-> "radarr",
                                                  id |-> item.tmdb_id, tag |-> tag,
                                                  result |-> a.result, posts |-> a.posts,
                                                  raised |-> a.raised])]
    ELSE r

\* the request for one missing item
AddOneMissing(r, item, is_series, tag, plan) ==
    IF is_series /\ r.sonarr.installed /\ Truthy(item.tvdb_id)
    THEN LET a == ArrAdd(r.sonarr, item.tvdb_id, tag, plan)
         IN [r EXCEPT !.sonarr = a.arr, !.raised = a.raised, !.failed = @ \cup a.failed,
                      !.arr_requests = Append(@, [manager |-> "sonarr",
                                                  id |-> item.tvdb_id, tag |-> tag,
                                                  result |-> a.result, posts |-> a.posts,
                                                  raised |-> a.raised])]
    ELSE IF ~is_series /\ r.radarr.installed /\ Truthy(item.tmdb_id)
    THEN LET a == ArrAdd(r.radarr, item.tmdb_id, tag, plan)
         IN [r EXCEPT !.radarr = a.arr, !.raised = a.raised, !.failed = @ \cup a.failed,
                      !.arr_requests = Append(@, [manager |-> "radarr",
                                                  id |-> item.tmdb_id, tag |-> tag,
                                                  result |-> a.result, posts |-> a.posts,
                                                  raised |-> a.raised])]
    ELSE r

\* the for loop over the missing items, left when a request raises
RECURSIVE AddMissingFrom(_, _, _, _, _, _)
AddMissingFrom(r, missing, i, is_series, tag, plan) ==
    IF r.raised \/ i > Len(missing) THEN r
    ELSE Only({AddMissingFrom(r1, missing, i + 1, is_series, tag, plan) :
                 r1 \in {AddOneMissing(r, missing[i], is_series, tag, plan)}})

AddMissingToArr(r, coll, plan) ==
    IF r.raised THEN r
    ELSE
    LET missing == SelectSeq(coll.items, LAMBDA item : ~item.in_library)
        is_series == IF coll.items # <<>> THEN coll.items[1].tvdb_id # None ELSE FALSE
        tag == IF TruthyStr(coll.config.item_radarr_tag)
               THEN coll.config.item_radarr_tag ELSE coll.config.item_sonarr_tag
    IN AddMissingFrom(r, missing, 1, is_series, tag, plan)

-----------------------------------------------------------------------------
(* sync_collection as a whole *)

\* a return statement that counts the removals first
ReturnMutant(r) ==
    IF r.raised THEN r
    ELSE [r EXCEPT !.returned = TRUE,
                   !.result = <<Cardinality(r.to_remove), Cardinality(r.to_add)>>]

\* the return statement: (len(to_add), len(to_remove))
Return(r) ==
    IF r.raised THEN r
    ELSE [r EXCEPT !.returned = TRUE,
                   !.result = <<Cardinality(r.to_add), Cardinality(r.to_remove)>>]

\* the body past the dry-run test, statement after statement
RealSync(r, coll, add_missing_to_arr, plan) ==
    Only({Return(r7) :
      r7 \in {IF add_missing_to_arr THEN AddMissingToArr(r6, coll, plan) ELSE r6 :
      r6 \in {UpdateMetadata(r5, coll, plan) :
      r5 \in {ApplyRemove(r4, plan) :
      r4 \in {ApplyAdd(r3, plan) :
      r3 \in {ComputeChanges(r2, coll) :
      r2 \in {ReadCurrent(r1, plan) :
      r1 \in {ResolveHandle(r, coll, plan)}}}}}}}})

\* a sync_collection without the dry-run test
SyncCollectionMutant(r, coll, dry, add_missing_to_arr, plan) ==
    RealSync(r, coll, add_missing_to_arr, plan)

SyncCollection(r, coll, dry, add_missing_to_arr, plan) ==
    IF dry THEN [r EXCEPT !.returned = TRUE, !.result = <<0, 0>>]
    ELSE RealSync(r, coll, add_missing_to_arr, plan)

\* the locals and outcome of a call, as kept in the variable sync
SyncView(r) ==
    [raised |-> r.raised, returned |-> r.returned, diffed |-> r.diffed,
     jellyfin_id |-> r.jellyfin_id, current_ids |-> r.current_ids,
     target_ids |-> r.target_ids, to_add |-> r.to_add, to_remove |-> r.to_remove,
     result |-> r.result]

-----------------------------------------------------------------------------
(* The states sync_collection is called in *)

\* Jellyfin item identifiers of library items
LibIds == {"a", "b", "c", "d"}

LibIdOrder == <<"a", "b", "c", "d">>

\* at most this many items of a built collection are not in the library
MaxMissing == 2

\* build_collection's CollectionItem for a candidate and the library item found (or None)
MkCollectionItem(item, jellyfin_id) ==
    [title |-> item.title, year |-> item.year, tmdb_id |-> item.tmdb_id,
     tvdb_id |-> item.tvdb_id, jellyfin_id |-> jellyfin_id,
     matched |-> jellyfin_id # NoneStr, in_library |-> jellyfin_id # NoneStr]

\* the candidate that matched library item id
MatchedItem(id) ==
    MkCollectionItem(MkItem(id, 2020, 610 + MinOf({i \in 1..4 : LibIdOrder[i] = id}),
                            None, 7, 100, "US"), id)

\* the k-th candidate that is in no library
MissingItem(k) ==
    MkCollectionItem(MkItem("missing", 2021, 700 + k, None, 7, 100, "US"), NoneStr)

SyncConfig ==
    [BaseConfig EXCEPT !.name = "Top", !.summary = "Best of", !.item_radarr_tag = "films"]

MkCollection(cfg, library_name, its) ==
    [config |-> cfg, library_name |-> library_name, items |-> its]

MatchedSeq(target) ==
    LET ids == SelectSeq(LibIdOrder, LAMBDA id : id \in target)
    IN [i \in 1..Len(ids) |-> MatchedItem(ids[i])]

MissingSeq(n) == [i \in 1..n |-> MissingItem(i)]

\* built collections: every target set, with the missing items first or last
SyncCollections ==
    {MkCollection(SyncConfig, "Films",
        IF missing_first THEN MissingSeq(n) \o MatchedSeq(target)
        ELSE MatchedSeq(target) \o MissingSeq(n)) :
        target \in SUBSET LibIds, n \in 0..MaxMissing, missing_first \in BOOLEAN}

OtherBoxSet ==
    [Id |-> 1, Name |-> "Other", Library |-> "Films", Items |-> {"a"},
     Overview |-> "old", SortName |-> "old"]

TopBoxSet(members) ==
    [Id |-> 2, Name |-> "Top", Library |-> "Films", Items |-> members,
     Overview |-> "old", SortName |-> "old"]

LibraryListing == <<[Name |-> "Films", ItemId |-> "lib-films"],
                    [Name |-> "Series", ItemId |-> "lib-series"]>>

\* a BoxSet of the same name that belongs to the other library
TopElsewhere ==
    [Id |-> 2, Name |-> "Top", Library |-> "Series", Items |-> {"s"},
     Overview |-> "old", SortName |-> "old"]

\* a second BoxSet of the same name in the same library
TopAgain ==
    [Id |-> 3, Name |-> "Top", Library |-> "Films", Items |-> {"b"},
     Overview |-> "old", SortName |-> "old"]

\* the server before a sync: the collection is absent, or present with any membership,
\* or its name is borne by a BoxSet of the other library, or by two BoxSets
SyncJellyfins ==
    {[libraries |-> LibraryListing, collections |-> <<OtherBoxSet>>],
     [libraries |-> LibraryListing, collections |-> <<OtherBoxSet, TopElsewhere>>],
     [libraries |-> LibraryListing,
      collections |-> <<OtherBoxSet, TopBoxSet({"a"}), TopAgain>>]}
    \cup {[libraries |-> LibraryListing, collections |-> <<OtherBoxSet, TopBoxSet(members)>>] :
            members \in SUBSET LibIds}

\* an acquisition manager that holds title 702 under tag 1 ("jfc")
Arr0 ==
    [installed |-> TRUE, default_tag |-> "jfc", tag_id |-> None, tags |-> <<"jfc">>,
     titles |-> {[id |-> 702, tags |-> {1}]}]

\* the same manager behind a client that registered title 702 for a collection tagged
\* "jfc": get_or_create_tag has cached that tag's id in _tag_id
ArrUsed == [Arr0 EXCEPT !.tag_id = 1]

IdleSync == SyncView(StartCall(<<>>, <<>>, <<>>))

EmptyCollection == MkCollection(BaseConfig, "", <<>>)

\* the values of the builder's variables in the specifications that do not use them
NoSync ==
    /\ jellyfin = [libraries |-> <<>>, collections |-> <<>>]
    /\ radarr = Arr0
    /\ sonarr = Arr0
    /\ dry_run = FALSE
    /\ collection = EmptyCollection
    /\ sync = IdleSync
    /\ calls = <<>>
    /\ arr_requests = <<>>
    /\ failed = {}

-----------------------------------------------------------------------------
(* CollectionBuilder.build_collection: fetch, filter, match *)

SeriesS == MkItem("S", 2022, 800, 9000, 8, 200, "US")
SeriesT == MkItem("T", 2023, 801, 9001, 6, 50, "US")
\* a series Trakt knows no TVDB identifier of (ids.get("tvdb") is None)
SeriesU == MkItem("U", 2024, 802, None, 6, 50, "US")

\* the provider sources in the order _fetch_items reads them
SourceOrder ==
    <<"tmdb_trending_weekly", "tmdb_trending_daily", "tmdb_popular", "tmdb_discover",
      "trakt_trending", "trakt_popular", "trakt_chart">>

\* Runner.trakt is set (settings.trakt.client_id is configured)
TraktConfigured == TRUE

\* what each provider call returns, before its limit
Feed(source, media_type) ==
    IF media_type = "series" THEN <<SeriesS, SeriesT, SeriesU>>
    ELSE CASE source = "tmdb_trending_weekly" -> <<ItemA, ItemB>>
           [] source = "tmdb_trending_daily"  -> <<ItemB, ItemC>>
           [] source = "tmdb_popular"         -> <<ItemC, ItemE, ItemA>>
           [] source = "tmdb_discover"        -> <<ItemE>>
           [] source = "trakt_trending"       -> <<ItemA2, ItemD, ItemE>>
           [] source = "trakt_popular"        -> <<ItemD>>
           [] OTHER                           -> <<ItemB>>

\* a fetch that follows the order of the definition file
EnabledSourcesMutant(cfg) == cfg.declared

\* the sources a configuration enables, in the order they are fetched
EnabledSources(cfg) ==
    SelectSeq(SourceOrder, LAMBDA source :
        /\ Truthy(cfg[source])
        /\ (source \in {"trakt_trending", "trakt_popular", "trakt_chart"} => TraktConfigured))

RECURSIVE ConcatFeeds(_, _, _, _)
ConcatFeeds(cfg, media_type, sources, i) ==
    IF i > Len(sources) THEN <<>>
    ELSE Truncate(Feed(sources[i], media_type), cfg[sources[i]])
            \o ConcatFeeds(cfg, media_type, sources, i + 1)

\* the library's index by TMDb identifier
LibraryItems ==
    {[tmdb_id |-> 603, jellyfin_id |-> "a", library_id |-> "lib-films"],
     [tmdb_id |-> 605, jellyfin_id |-> "c", library_id |-> "lib-films"],
     [tmdb_id |-> 606, jellyfin_id |-> "d", library_id |-> "lib-films"],
     [tmdb_id |-> 800, jellyfin_id |-> "s", library_id |-> "lib-series"]}

\* MediaMatcher.find_in_library: the library item's identifier, or None
FindInLibrary(item, library_id) ==
    LET hits == {l \in LibraryItems : l.tmdb_id = item.tmdb_id /\ l.library_id = library_id}
    IN IF hits = {} THEN NoneStr ELSE (CHOOSE l \in hits : TRUE).jellyfin_id

\* the provider calls of one _fetch_items, by position among the enabled sources
FetchCalls == <<"fetch_1", "fetch_2">>

\* the positions at which the provider call raises
FailingFetches(sources, plan) ==
    {k \in 1..Min(Len(sources), Len(FetchCalls)) : Mode(plan, FetchCalls[k]) = "raise"}

\* a _fetch_items that logs a provider failure and goes on with the sources after it
FetchAllMutant(cfg, library_name, media_type, plan) ==
    Only({[raised |-> FALSE,
           failed |-> {<<FetchCalls[k], "raise">> : k \in FailingFetches(sources, plan)},
           fetches |-> sources,
           items |-> ConcatFeeds(cfg, media_type,
                                 SelectSeq(sources, LAMBDA source :
                                     \A k \in FailingFetches(sources, plan) :
                                         sources[k] # source), 1),
           unique_items |-> <<>>, filtered |-> <<>>,
           collection |-> MkCollection(cfg, library_name, <<>>)] :
          sources \in {EnabledSources(cfg)}})

\* _fetch_items up to the deduplication: the provider calls, until one of them raises
FetchAll(cfg, library_name, media_type, plan) ==
    Only({IF FailingFetches(sources, plan) # {}
          THEN [raised |-> TRUE,
                failed |-> {<<FetchCalls[MinOf(FailingFetches(sources, plan))], "raise">>},
                fetches |-> SubSeq(sources, 1, MinOf(FailingFetches(sources, plan))),
                items |-> <<>>, unique_items |-> <<>>, filtered |-> <<>>,
                collection |-> EmptyCollection]
          ELSE [raised |-> FALSE, failed |-> {}, fetches |-> sources,
                items |-> ConcatFeeds(cfg, media_type, sources, 1),
                unique_items |-> <<>>, filtered |-> <<>>,
                collection |-> MkCollection(cfg, library_name, <<>>)] :
          sources \in {EnabledSources(cfg)}})

\* the deduplication that ends _fetch_items
DedupeFetched(b) ==
    IF b.raised THEN b ELSE [b EXCEPT !.unique_items = Dedupe(b.items)]

\* filtered_items = self._apply_filters(items, config)
FilterFetched(b, cfg) ==
    IF b.raised THEN b ELSE [b EXCEPT !.filtered = ApplyFilters(b.unique_items, cfg)]

\* the loop over the filtered items: one library lookup and one CollectionItem each
MatchFiltered(b, library_id, plan) ==
    IF b.raised \/ b.filtered = <<>> THEN b
    ELSE IF Mode(plan, "find_in_library") = "raise"
    THEN [b EXCEPT !.raised = TRUE, !.failed = {<<"find_in_library", "raise">>},
                   !.collection = EmptyCollection]
    ELSE [b EXCEPT !.collection.items =
             [i \in 1..Len(b.filtered) |->
                 MkCollectionItem(b.filtered[i], FindInLibrary(b.filtered[i], library_id))]]

\* build_collection: what it built, or that a fetch or a library lookup raised
BuildCollection(cfg, library_name, library_id, media_type, plan) ==
    Only({MatchFiltered(b3, library_id, plan) :
      b3 \in {FilterFetched(b2, cfg) :
      b2 \in {DedupeFetched(b1) :
      b1 \in {FetchAll(cfg, library_name, media_type, plan)}}}})

-----------------------------------------------------------------------------
(* Runner.run: its inputs *)

MkSchedule(type, day_of_week, day_of_month) ==
    [schedule_type |-> type, day_of_week |-> day_of_week, day_of_month |-> day_of_month]

Trending ==
    [BaseConfig EXCEPT !.name = "Trending", !.summary = "Trending now",
                       !.item_radarr_tag = "films",
                       !.tmdb_trending_weekly = 2, !.trakt_trending = 3,
                       !.declared = <<"tmdb_trending_weekly", "trakt_trending">>]

Popular ==
    [BaseConfig EXCEPT !.name = "Popular", !.schedule = MkSchedule("weekly", NoneStr, None),
                       !.filters = [NoFilters EXCEPT !.year_gte = 2020], !.limit = 2,
                       !.sort_title = "!Popular", !.tmdb_popular = 3, !.trakt_popular = 1,
                       !.declared = <<"trakt_popular", "tmdb_popular">>]

Never ==
    [BaseConfig EXCEPT !.name = "Never", !.schedule = MkSchedule("never", NoneStr, None),
                       !.tmdb_discover = 1, !.declared = <<"tmdb_discover">>]

Shows ==
    [BaseConfig EXCEPT !.name = "Shows", !.schedule = MkSchedule("monthly", NoneStr, 15),
                       !.item_sonarr_tag = "shows", !.trakt_popular = 3,
                       !.declared = <<"trakt_popular">>]

\* KometaParser.get_all_collections(): library name -> its collection configurations
AllCollections ==
    <<[library |-> "Films", configs |-> <<Trending, Popular, Never>>],
      [library |-> "Series", configs |-> <<Shows>>]>>

CollectionNames == {"Trending", "Popular", "Never", "Shows"}

\* _infer_media_type on the configured library names
InferMediaType(library_name) ==
    IF library_name \in {"Films", "Movies"} THEN "movie"
    ELSE IF library_name \in {"Series", "TV Shows"} THEN "series"
    ELSE "movie"

\* the days a run is started on: Sunday the 15th and Monday the 1st
RunDays == {[month |-> 3, day |-> 15, weekday |-> 6], [month |-> 6, day |-> 1, weekday |-> 0]}

\* the library listings Jellyfin may answer get_libraries() with
Listings ==
    {<<>>,
     <<[Name |-> "Films", ItemId |-> "lib-films"]>>,
     <<[Name |-> "Series", ItemId |-> "lib-series"]>>,
     LibraryListing}

\* the collections on the server when a run starts
RunBoxSets ==
    <<OtherBoxSet,
      [Id |-> 2, Name |-> "Trending", Library |-> "Films", Items |-> {"a", "b"},
       Overview |-> "old", SortName |-> "old"],
      [Id |-> 3, Name |-> "Never", Library |-> "Films", Items |-> {"d"},
       Overview |-> "old", SortName |-> "old"]>>

ZeroStats == [collections_updated |-> 0, items_added |-> 0, items_removed |-> 0, errors |-> 0]

\* the answers of the webhook: 204, another status, a transport exception
Webhooks == {"204", "status", "exception", "none"}

\* a _send whose except clause is missing: the transport's exception leaves the notifier
SendMutant(hook, kind, titles) ==
    IF hook = "none" THEN [returned |-> FALSE, raised |-> FALSE, posts |-> 0]
    ELSE IF kind = "changes" /\ titles = <<>>
    THEN [returned |-> TRUE, raised |-> FALSE, posts |-> 0]
    ELSE [returned |-> hook = "204", raised |-> hook = "exception", posts |-> 1]

\* DiscordWebhook.send_*: no URL -> False; no titles to report -> True; otherwise _send:
\* one POST, True on 204, False on any other status and on any exception
Send(hook, kind, titles) ==
    IF hook = "none" THEN [returned |-> FALSE, raised |-> FALSE, posts |-> 0]
    ELSE IF kind = "changes" /\ titles = <<>>
    THEN [returned |-> TRUE, raised |-> FALSE, posts |-> 0]
    ELSE [returned |-> hook = "204", raised |-> FALSE, posts |-> 1]

\* a notification requested from the notifier, with what its send returned
Notification(kind, name, st, titles) ==
    [kind |-> kind, name |-> name, stats |-> st, titles |-> titles,
     delivered |-> Send(webhook, kind, titles).returned,
     posts |-> Send(webhook, kind, titles).posts]

\* a runner that reports every synced collection
ReportsChangesMutant(added, removed) == TRUE

\* line 187: `if added > 0 or removed > 0`
ReportsChanges(added, removed) == added > 0 \/ removed > 0

\* where run() stands after awaiting a send: an exception leaving the notifier leaves run()
PcAfterSend(kind, titles, next) ==
    IF Send(webhook, kind, titles).raised THEN "raised" ELSE next

-----------------------------------------------------------------------------
(* Runner.run: the loop over libraries and collections *)

\* library_id_map = {lib["Name"]: lib["ItemId"] for lib in jellyfin_libraries}
LibraryIdMap(listing) ==
    [name \in {listing[i].Name : i \in 1..Len(listing)} |->
        listing[CHOOSE i \in 1..Len(listing) :
                    /\ listing[i].Name = name
                    /\ \A j \in (i + 1)..Len(listing) : listing[j].Name # name].ItemId]

\* library_id_map.get(library_name)
LibraryIdOf(map, library_name) ==
    IF library_name \in DOMAIN map THEN map[library_name] ELSE NoneStr

\* a resolution that accepts a library the listing does not hold
LibraryResolvedMutant(map, library_name) == TRUE

\* `if not library_id` is not taken
LibraryResolved(map, library_name) == TruthyStr(LibraryIdOf(map, library_name))

\* `if collections and config.name not in collections` is not taken
PassesNameFilter(names, cfg) == ~(names # <<>> /\ cfg.name \notin {names[i] : i \in 1..Len(names)})

\* `scheduled and not self._should_run_today(...)`: the gate is called only when scheduled
GateConsulted(is_scheduled) == is_scheduled

\* a gate applied to manual runs as well
GateSkipsMutant(is_scheduled, sched, now) == ~ShouldRunToday(sched, now)

GateSkips(is_scheduled, sched, now) == is_scheduled /\ ~ShouldRunToday(sched, now)

\* a count that leaves out the collections the sync found up to date
StatsAfterSyncMutant(st, added, removed) ==
    [st EXCEPT !.collections_updated = @ + (IF added > 0 \/ removed > 0 THEN 1 ELSE 0),
               !.items_added = @ + added, !.items_removed = @ + removed]

StatsAfterSync(st, added, removed) ==
    [st EXCEPT !.collections_updated = @ + 1,
               !.items_added = @ + added, !.items_removed = @ + removed]

\* an error path that also counts the collection as updated
StatsAfterErrorMutant(st) ==
    [st EXCEPT !.errors = @ + 1, !.collections_updated = @ + 1]

\* the except clause: stats["errors"] += 1
StatsAfterError(st) == [st EXCEPT !.errors = @ + 1]

\* an except clause that lets the exception leave run()
PcAfterErrorMutant == "raised"

\* after the except clause the for loop goes on with the next collection
PcAfterError == "collection"

\* the count at line 153: an unresolved library is one error
StatsAfterUnresolved(st) == [st EXCEPT !.errors = @ + 1]

Names(seq) == {seq[i] : i \in 1..Len(seq)}

-----------------------------------------------------------------------------
(* Scheduler (core/scheduler.py).  A string is the sequence of its          *)
(* characters.  The AsyncIOScheduler behind it is reduced to the jobs it     *)
(* holds, each [id, name, trigger], and to what add_job and remove_job do    *)
(* to them.                                                                  *)

\* str.split(): the maximal runs of characters that are not whitespace
RECURSIVE SplitFrom(_, _, _)
SplitFrom(s, i, word) ==
    IF i > Len(s) THEN (IF word = <<>> THEN <<>> ELSE <<word>>)
    ELSE IF s[i] = " "
    THEN (IF word = <<>> THEN <<>> ELSE <<word>>) \o SplitFrom(s, i + 1, <<>>)
    ELSE SplitFrom(s, i + 1, Append(word, s[i]))

Split(s) == SplitFrom(s, 1, <<>>)

DigitChars == <<"0", "1", "2", "3", "4", "5", "6", "7", "8", "9">>

DigitVal(c) == (CHOOSE d \in 1..10 : DigitChars[d] = c) - 1

IsNumber(word) == word # <<>> /\ \A i \in 1..Len(word) : word[i] \in Names(DigitChars)

RECURSIVE Number(_)
Number(word) ==
    IF word = <<>> THEN 0
    ELSE 10 * Number(SubSeq(word, 1, Len(word) - 1)) + DigitVal(word[Len(word)])

\* the values CronTrigger takes for minute, hour, day, month, day_of_week
FieldRanges ==
    <<[lo |-> 0, hi |-> 59], [lo |-> 0, hi |-> 23], [lo |-> 1, hi |-> 31],
      [lo |-> 1, hi |-> 12], [lo |-> 0, hi |-> 6]>>

\* CronTrigger(minute=..., ...): a field is * or a number of the field's range
\* (the expressions of CronExpressions use no other form); otherwise ValueError
CronTrigger(parts) ==
    IF \A k \in 1..5 :
          \/ parts[k] = <<"*">>
          \/ IsNumber(parts[k]) /\ Number(parts[k]) \in FieldRanges[k].lo..FieldRanges[k].hi
    THEN [raised |-> FALSE, fields |-> parts]
    ELSE [raised |-> TRUE, fields |-> <<>>]

\* Scheduler.__init__: no AsyncIOScheduler yet
NoScheduler == [created |-> FALSE, running |-> FALSE, held |-> {}]

\* Scheduler.start()
Start(sch) ==
    IF ~sch.created THEN [created |-> TRUE, running |-> TRUE, held |-> {}]
    ELSE [sch EXCEPT !.running = TRUE]

\* dict item assignment and del
DictSet(d, k, v) == [n \in DOMAIN d \cup {k} |-> IF n = k THEN v ELSE d[n]]

DictDel(d, k) == [n \in DOMAIN d \ {k} |-> d[n]]

\* a remove_job that forgets the name although the scheduler refused to remove the job,
\* and keeps it although the scheduler removed it
RemoveJobMutant(st, name) ==
    IF name \in DOMAIN st.jobs /\ st.scheduler.created
    THEN IF \E j \in st.scheduler.held : j.id = st.jobs[name]
         THEN [st EXCEPT !.scheduler.held = {j \in @ : j.id # st.jobs[name]},
                         !.removed = TRUE]
         ELSE [st EXCEPT !.jobs = DictDel(@, name), !.removed = FALSE]
    ELSE [st EXCEPT !.removed = FALSE]

\* Scheduler.remove_job on st = [scheduler, jobs, removed]; the scheduler's own
\* remove_job raises JobLookupError for an id it does not hold
RemoveJob(st, name) ==
    IF name \in DOMAIN st.jobs /\ st.scheduler.created
    THEN IF \E j \in st.scheduler.held : j.id = st.jobs[name]
         THEN [st EXCEPT !.scheduler.held = {j \in @ : j.id # st.jobs[name]},
                         !.jobs = DictDel(@, name),
                         !.removed = TRUE]
         ELSE [st EXCEPT !.removed = FALSE]
    ELSE [st EXCEPT !.removed = FALSE]

\* AsyncIOScheduler.add_job(id=name, name=name, replace_existing=True)
AddJob(sch, name, fields) ==
    [sch EXCEPT !.held = {j \in @ : j.id # name}
                            \cup {[id |-> name, name |-> name, trigger |-> fields]}]

\* no call yet
NoCall ==
    [op |-> "none", name |-> "", cron_expression |-> <<>>, job_id |-> "",
     removed |-> FALSE, raised |-> FALSE]

\* the values of the scheduler's variables in the specifications that do not use them
NoSched ==
    /\ scheduler = NoScheduler
    /\ jobs = <<>>
    /\ job_call = NoCall

\* the values of the runner's variables in the specifications that do not use them
NoRun ==
    /\ pc = "idle"
    /\ lib_idx = 0
    /\ cfg_idx = 0
    /\ stats = ZeroStats
    /\ scheduled = FALSE
    /\ webhook = "none"
    /\ libraries = <<>>
    /\ collections = <<>>
    /\ all_collections = <<>>
    /\ library_id_map = <<>>
    /\ notifications = <<>>
    /\ gate_calls = {}
    /\ outcomes = [n \in CollectionNames |-> "none"]
    /\ lib_outcomes = [l \in {"Films", "Series"} |-> "none"]
    /\ fetches = <<>>

\* run() is entered: nothing parsed, counted, notified or built yet
RunEntered ==
    /\ pc = "start"
    /\ lib_idx = 0
    /\ cfg_idx = 0
    /\ stats = ZeroStats
    /\ all_collections = <<>>
    /\ library_id_map = <<>>
    /\ notifications = <<>>
    /\ gate_calls = {}
    /\ outcomes = [n \in CollectionNames |-> "none"]
    /\ lib_outcomes = [l \in {"Films", "Series"} |-> "none"]
    /\ fetches = <<>>
    /\ jellyfin \in {[libraries |-> l, collections |-> RunBoxSets] : l \in Listings}
    /\ radarr = Arr0
    /\ sonarr = Arr0
    /\ collection = EmptyCollection
    /\ sync = IdleSync
    /\ calls = <<>>
    /\ arr_requests = <<>>
    /\ failed = {}
    /\ items = <<>>
    /\ unique_items = <<>>
    /\ filtered = <<>>
    /\ config = BaseConfig
    /\ schedule = DailySchedule
    /\ gate_result = FALSE
    /\ phase = "run"
    /\ NoSched

\* every run mode and selection, every day of a scheduled run, a webhook that answers 204
InitRun ==
    /\ RunEntered
    /\ scheduled \in BOOLEAN
    /\ libraries \in {<<>>, <<"Films">>}
    /\ collections \in {<<>>, <<"Trending", "Never", "Shows">>}
    /\ dry_run \in BOOLEAN
    \* a manual run never reads the date: it is run on the day no schedule is due
    /\ today \in IF scheduled THEN RunDays ELSE {[month |-> 6, day |-> 1, weekday |-> 0]}
    /\ webhook = "204"

\* runs of the Films library on one day, with every behaviour of the webhook
InitNotify ==
    /\ RunEntered
    /\ scheduled \in BOOLEAN
    /\ libraries = <<"Films">>
    /\ collections \in {<<>>, <<"Trending", "Never", "Shows">>}
    /\ dry_run = FALSE
    /\ today = [month |-> 3, day |-> 15, weekday |-> 6]
    /\ webhook \in Webhooks

\* lines 114-140: parse, filter by library, send_run_start, get_libraries
RunStart ==
    /\ pc = "start"
    /\ all_collections' =
          IF libraries # <<>>
          THEN SelectSeq(AllCollections, LAMBDA e : e.library \in Names(libraries))
          ELSE AllCollections
    /\ notifications' =
          Append(notifications,
                 Notification("run_start", "", ZeroStats,
                              [i \in 1..Len(all_collections') |-> all_collections'[i].library]))
    /\ \E listed \in BOOLEAN :
          IF listed
          THEN /\ library_id_map' = LibraryIdMap(jellyfin.libraries)
               /\ pc' = PcAfterSend("run_start", <<>>, "library")
               /\ lib_idx' = 1
               /\ failed' = {}
          ELSE /\ pc' = "raised"
               /\ failed' = IF PcAfterSend("run_start", <<>>, "library") = "raised"
                            THEN {} ELSE {<<"get_libraries", "raise">>}
               /\ UNCHANGED <<library_id_map, lib_idx>>
    /\ UNCHANGED <<cfg_idx, stats, scheduled, webhook, schedVars, libraries, collections, gate_calls,
                   outcomes, lib_outcomes, fetches, pureVars, jellyfin, radarr, sonarr,
                   dry_run, collection, sync, calls, arr_requests>>

CurrentLibrary == all_collections[lib_idx]

CurrentConfig == CurrentLibrary.configs[cfg_idx]

\* lines 143-154 with a library Jellyfin lists
EnterLibrary ==
    /\ pc = "library"
    /\ lib_idx <= Len(all_collections)
    /\ LibraryResolved(library_id_map, CurrentLibrary.library)
    /\ pc' = "collection"
    /\ cfg_idx' = 1
    /\ lib_outcomes' = [lib_outcomes EXCEPT ![CurrentLibrary.library] = "resolved"]
    /\ UNCHANGED <<lib_idx, stats, scheduled, webhook, schedVars, libraries, collections, all_collections,
                   library_id_map, notifications, gate_calls, outcomes, fetches,
                   pureVars, syncVars>>

\* lines 150-154: `if not library_id`: one error, next library
SkipLibrary ==
    /\ pc = "library"
    /\ lib_idx <= Len(all_collections)
    /\ ~LibraryResolved(library_id_map, CurrentLibrary.library)
    /\ stats' = StatsAfterUnresolved(stats)
    /\ lib_idx' = lib_idx + 1
    /\ lib_outcomes' = [lib_outcomes EXCEPT ![CurrentLibrary.library] = "unresolved"]
    /\ UNCHANGED <<pc, cfg_idx, scheduled, webhook, schedVars, libraries, collections, all_collections,
                   library_id_map, notifications, gate_calls, outcomes, fetches,
                   pureVars, syncVars>>

\* lines 159-160: the collection name filter
SkipByName ==
    /\ pc = "collection"
    /\ cfg_idx <= Len(CurrentLibrary.configs)
    /\ ~PassesNameFilter(collections, CurrentConfig)
    /\ cfg_idx' = cfg_idx + 1
    /\ outcomes' = [outcomes EXCEPT ![CurrentConfig.name] = "filtered"]
    /\ UNCHANGED <<pc, lib_idx, stats, scheduled, webhook, schedVars, libraries, collections, all_collections,
                   library_id_map, notifications, gate_calls, lib_outcomes, fetches,
                   pureVars, syncVars>>

\* lines 163-165: the schedule gate closes
SkipBySchedule ==
    /\ pc = "collection"
    /\ cfg_idx <= Len(CurrentLibrary.configs)
    /\ PassesNameFilter(collections, CurrentConfig)
    /\ GateSkips(scheduled, CurrentConfig.schedule, today)
    /\ gate_calls' = IF GateConsulted(scheduled)
                     THEN gate_calls \cup {CurrentConfig.name} ELSE gate_calls
    /\ cfg_idx' = cfg_idx + 1
    /\ outcomes' = [outcomes EXCEPT ![CurrentConfig.name] = "gated"]
    /\ UNCHANGED <<pc, lib_idx, stats, scheduled, webhook, schedVars, libraries, collections, all_collections,
                   library_id_map, notifications, lib_outcomes, fetches,
                   pureVars, syncVars>>

\* [i.title for i in collection.items if i.matched][:added]
AddedTitles(coll, added) ==
    LET matched == SelectSeq(coll.items, LAMBDA item : item.matched)
    IN Truncate([i \in 1..Len(matched) |-> matched[i].title], added)

\* lines 167-207: build, sync, count, notify; or the except clause
\* (sync_collection's locals and request log end with the call and are not kept)
ProcessCollection ==
    /\ pc = "collection"
    /\ cfg_idx <= Len(CurrentLibrary.configs)
    /\ PassesNameFilter(collections, CurrentConfig)
    /\ ~GateSkips(scheduled, CurrentConfig.schedule, today)
    /\ gate_calls' = IF GateConsulted(scheduled)
                     THEN gate_calls \cup {CurrentConfig.name} ELSE gate_calls
    /\ \E plan \in FaultPlans :
       \* the plan is the set of failures that occur in this build and sync
       /\ failed' = plan
       /\ \E b \in {BuildCollection(CurrentConfig, CurrentLibrary.library,
                                    LibraryIdOf(library_id_map, CurrentLibrary.library),
                                    InferMediaType(CurrentLibrary.library), plan)} :
          \E r \in {IF b.raised THEN Raised(StartCall(jellyfin, radarr, sonarr))
                    ELSE SyncCollection(StartCall(jellyfin, radarr, sonarr),
                                        b.collection, dry_run, TRUE, plan)} :
             LET cfg == CurrentConfig
                 added == r.result[1]
                 removed == r.result[2]
             IN /\ fetches' = b.fetches
                /\ items' = b.items
                /\ unique_items' = b.unique_items
                /\ filtered' = b.filtered
                /\ collection' = b.collection
                /\ config' = cfg
                /\ jellyfin' = r.jellyfin
                /\ radarr' = r.radarr
                /\ sonarr' = r.sonarr
                /\ arr_requests' = r.arr_requests
                /\ b.failed \cup r.failed = plan
                /\ IF r.raised
                   THEN /\ stats' = StatsAfterError(stats)
                        /\ notifications' =
                              Append(notifications, Notification("error", cfg.name, stats', <<>>))
                        /\ outcomes' = [outcomes EXCEPT ![cfg.name] = "error"]
                        /\ pc' = PcAfterSend("error", <<>>, PcAfterError)
                   ELSE IF ReportsChanges(added, removed)
                           /\ PcAfterSend("changes", AddedTitles(b.collection, added), "")
                                 = "raised"
                   \* send_collection_changes raises inside the try block: the except clause
                   THEN /\ stats' = StatsAfterError(StatsAfterSync(stats, added, removed))
                        /\ notifications' =
                              Append(Append(notifications,
                                            Notification("changes", cfg.name,
                                                         StatsAfterSync(stats, added, removed),
                                                         AddedTitles(b.collection, added))),
                                     Notification("error", cfg.name, stats', <<>>))
                        /\ outcomes' = [outcomes EXCEPT ![cfg.name] = "error"]
                        /\ pc' = PcAfterSend("error", <<>>, PcAfterError)
                   ELSE /\ stats' = StatsAfterSync(stats, added, removed)
                        /\ notifications' =
                              IF ReportsChanges(added, removed)
                              THEN Append(notifications,
                                          Notification("changes", cfg.name, stats',
                                                       AddedTitles(b.collection, added)))
                              ELSE notifications
                        /\ outcomes' = [outcomes EXCEPT ![cfg.name] = "ok"]
                        /\ pc' = "collection"
    /\ cfg_idx' = cfg_idx + 1
    /\ UNCHANGED <<lib_idx, scheduled, webhook, schedVars, libraries, collections, all_collections,
                   library_id_map, lib_outcomes, schedule, today, gate_result, phase,
                   dry_run, calls, sync>>

\* the inner for loop is exhausted: next library
EndLibrary ==
    /\ pc = "collection"
    /\ cfg_idx > Len(CurrentLibrary.configs)
    /\ pc' = "library"
    /\ lib_idx' = lib_idx + 1
    /\ UNCHANGED <<cfg_idx, stats, scheduled, webhook, schedVars, libraries, collections, all_collections,
                   library_id_map, notifications, gate_calls, outcomes, lib_outcomes,
                   fetches, pureVars, syncVars>>

\* lines 209-228: send_run_end with the statistics, return them
RunEnd ==
    /\ pc = "library"
    /\ lib_idx > Len(all_collections)
    /\ notifications' = Append(notifications, Notification("run_end", "", stats, <<>>))
    /\ pc' = PcAfterSend("run_end", <<>>, "done")
    /\ UNCHANGED <<lib_idx, cfg_idx, stats, scheduled, webhook, schedVars, libraries, collections,
                   all_collections, library_id_map, gate_calls, outcomes, lib_outcomes,
                   fetches, pureVars, syncVars>>

NextRun ==
    \/ RunStart
    \/ EnterLibrary
    \/ SkipLibrary
    \/ SkipByName
    \/ SkipBySchedule
    \/ ProcessCollection
    \/ EndLibrary
    \/ RunEnd

SpecRun == InitRun /\ [][NextRun]_vars

SpecNotify == InitNotify /\ [][NextRun]_vars

\* run() is one coroutine that is awaited to its end: a step that can be taken is taken
FairSpecRun == SpecRun /\ WF_vars(NextRun)

-----------------------------------------------------------------------------
(* build_collection's two pure steps on every provider sequence:           *)
(* _fetch_items deduplicates, then _apply_filters filters and truncates    *)

InitBuild ==
    /\ items \in SeqsUpTo(ItemPool, MaxItems)
    /\ config \in BuildConfigs
    /\ unique_items = <<>>
    /\ filtered = <<>>
    /\ schedule = DailySchedule
    /\ today = SomeToday
    /\ gate_result = FALSE
    /\ phase = "input"
    /\ NoSync
    /\ NoRun
    /\ NoSched

FetchItems ==
    /\ phase = "input"
    /\ unique_items' = Dedupe(items)
    /\ phase' = "fetched"
    /\ UNCHANGED <<items, filtered, config, schedule, today, gate_result, syncVars, runVars, schedVars>>

ApplyFiltersStep ==
    /\ phase = "fetched"
    /\ filtered' = ApplyFilters(unique_items, config)
    /\ phase' = "filtered"
    /\ UNCHANGED <<items, unique_items, config, schedule, today, gate_result, syncVars, runVars, schedVars>>

NextBuild == FetchItems \/ ApplyFiltersStep

SpecBuild == InitBuild /\ [][NextBuild]_vars

-----------------------------------------------------------------------------
(* _should_run_today on every schedule and every date *)

InitGate ==
    /\ schedule \in Schedules
    /\ today \in Todays
    /\ gate_result = FALSE
    /\ phase = "input"
    /\ items = <<>>
    /\ unique_items = <<>>
    /\ filtered = <<>>
    /\ config = BaseConfig
    /\ NoSync
    /\ NoRun
    /\ NoSched

ShouldRunTodayCall ==
    /\ phase = "input"
    /\ gate_result' = ShouldRunToday(schedule, today)
    /\ phase' = "gated"
    /\ UNCHANGED <<items, unique_items, filtered, config, schedule, today, syncVars, runVars, schedVars>>

NextGate == ShouldRunTodayCall

SpecGate == InitGate /\ [][NextGate]_vars

-----------------------------------------------------------------------------
(* sync_collection on every built collection and every state of the server *)

InitSync ==
    /\ collection \in SyncCollections
    /\ jellyfin \in SyncJellyfins
    /\ dry_run \in BOOLEAN
    /\ radarr \in {Arr0, ArrUsed}
    /\ sonarr = Arr0
    /\ sync = IdleSync
    /\ calls = <<>>
    /\ arr_requests = <<>>
    /\ failed = {}
    /\ phase = "built"
    /\ items = <<>>
    /\ unique_items = <<>>
    /\ filtered = <<>>
    /\ config = collection.config
    /\ schedule = DailySchedule
    /\ today = SomeToday
    /\ gate_result = FALSE
    /\ NoRun
    /\ NoSched

SyncCollectionCall ==
    /\ phase = "built"
    /\ \E plan \in FaultPlans :
       \E r \in {SyncCollection(StartCall(jellyfin, radarr, sonarr),
                                collection, dry_run, TRUE, plan)} :
             /\ jellyfin' = r.jellyfin
             /\ radarr' = r.radarr
             /\ sonarr' = r.sonarr
             /\ calls' = r.calls
             /\ arr_requests' = r.arr_requests
             /\ failed' = r.failed
             /\ sync' = SyncView(r)
    /\ phase' = "synced"
    /\ UNCHANGED <<items, unique_items, filtered, config, schedule, today, gate_result,
                   dry_run, collection, runVars, schedVars>>

NextSync == SyncCollectionCall

SpecSync == InitSync /\ [][NextSync]_vars

-----------------------------------------------------------------------------
(* sync_collection called a second time on the same built collection, after  *)
(* a call that returned with every request answered and applied; nothing     *)
(* else changes the server between the two calls.  calls, arr_requests,      *)
(* failed and sync are those of the second call.                             *)

SyncCollectionAgain ==
    /\ phase = "synced"
    /\ sync.returned
    /\ failed = {}
    /\ \E plan \in FaultPlans :
       \E r \in {SyncCollection(StartCall(jellyfin, radarr, sonarr),
                                collection, dry_run, TRUE, plan)} :
             /\ jellyfin' = r.jellyfin
             /\ radarr' = r.radarr
             /\ sonarr' = r.sonarr
             /\ calls' = r.calls
             /\ arr_requests' = r.arr_requests
             /\ failed' = r.failed
             /\ sync' = SyncView(r)
    /\ phase' = "resynced"
    /\ UNCHANGED <<items, unique_items, filtered, config, schedule, today, gate_result,
                   dry_run, collection, runVars, schedVars>>

NextResync == SyncCollectionCall \/ SyncCollectionAgain

SpecResync == InitSync /\ [][NextResync]_vars

-----------------------------------------------------------------------------
(* Scheduler: every sequence of add_cron_job and remove_job calls *)

JobNames == {"daily", "weekly", "monthly"}

\* "0 3 * * *", "30 4 * * 0", " 0  3 * * * ", "0 3 * *", "0 3 * * * *", "61 3 * * *", ""
CronExpressions ==
    {<<"0", " ", "3", " ", "*", " ", "*", " ", "*">>,
     <<"3", "0", " ", "4", " ", "*", " ", "*", " ", "0">>,
     <<" ", "0", " ", " ", "3", " ", "*", " ", "*", " ", "*", " ">>,
     <<"0", " ", "3", " ", "*", " ", "*">>,
     <<"0", " ", "3", " ", "*", " ", "*", " ", "*", " ", "*">>,
     <<"6", "1", " ", "3", " ", "*", " ", "*", " ", "*">>,
     <<>>}

InitSched ==
    /\ scheduler = NoScheduler
    /\ jobs = <<>>
    /\ job_call = NoCall
    /\ items = <<>>
    /\ unique_items = <<>>
    /\ filtered = <<>>
    /\ config = BaseConfig
    /\ schedule = DailySchedule
    /\ today = SomeToday
    /\ gate_result = FALSE
    /\ phase = "input"
    /\ NoSync
    /\ NoRun

\* add_cron_job(name, func, cron_expression, **kwargs); accepted tells whether the
\* scheduler's add_job takes func and kwargs or raises
AddCronJobCall ==
    /\ \E name \in JobNames, cron_expression \in CronExpressions, accepted \in BOOLEAN :
          LET started == IF ~scheduler.created THEN Start(scheduler) ELSE scheduler
              parts == Split(cron_expression)
              call == [op |-> "add_cron_job", name |-> name,
                       cron_expression |-> cron_expression, job_id |-> "",
                       removed |-> FALSE, raised |-> TRUE]
          IN IF Len(parts) # 5
             THEN /\ scheduler' = started
                  /\ jobs' = jobs
                  /\ job_call' = call
             ELSE IF CronTrigger(parts).raised
             THEN /\ scheduler' = started
                  /\ jobs' = jobs
                  /\ job_call' = call
             ELSE LET st == [scheduler |-> started, jobs |-> jobs, removed |-> FALSE]
                      cleared == IF name \in DOMAIN jobs THEN RemoveJob(st, name) ELSE st
                  IN IF ~accepted
                     THEN /\ scheduler' = cleared.scheduler
                          /\ jobs' = cleared.jobs
                          /\ job_call' = call
                     ELSE /\ scheduler' = AddJob(cleared.scheduler, name, CronTrigger(parts).fields)
                          /\ jobs' = DictSet(cleared.jobs, name, name)
                          /\ job_call' = [call EXCEPT !.job_id = name, !.raised = FALSE]
    /\ UNCHANGED <<pureVars, syncVars, runVars>>

RemoveJobCall ==
    /\ \E name \in JobNames :
          LET r == RemoveJob([scheduler |-> scheduler, jobs |-> jobs, removed |-> FALSE], name)
          IN /\ scheduler' = r.scheduler
             /\ jobs' = r.jobs
             /\ job_call' = [op |-> "remove_job", name |-> name, cron_expression |-> <<>>,
                              job_id |-> "", removed |-> r.removed, raised |-> FALSE]
    /\ UNCHANGED <<pureVars, syncVars, runVars>>

NextSched == AddCronJobCall \/ RemoveJobCall

SpecSched == InitSched /\ [][NextSched]_vars

-----------------------------------------------------------------------------
(* Properties of _fetch_items *)

Range(s) == {s[i] : i \in 1..Len(s)}

\* the position of the first item of s that carries identifier id
FirstIndex(s, id) == CHOOSE i \in 1..Len(s) :
    /\ s[i].tmdb_id = id
    /\ \A j \in 1..(i - 1) : s[j].tmdb_id # id

InputIds == {items[i].tmdb_id : i \in 1..Len(items)} \ {None}

\* C2: after _fetch_items, the result holds exactly one item per distinct TMDb
\* identifier of the concatenated input, that item is the identifier's first
\* occurrence in the input, no item without an identifier is kept, and the kept
\* items are in their input order.
C2_DedupFirstWins ==
    phase # "input" =>
        /\ {unique_items[i].tmdb_id : i \in 1..Len(unique_items)} = InputIds
        /\ Len(unique_items) = Cardinality(InputIds)
        /\ \A i \in 1..Len(unique_items) :
              /\ unique_items[i].tmdb_id # None
              /\ unique_items[i] = items[FirstIndex(items, unique_items[i].tmdb_id)]
        /\ \A i, j \in 1..Len(unique_items) :
              i < j => FirstIndex(items, unique_items[i].tmdb_id)
                          < FirstIndex(items, unique_items[j].tmdb_id)

\* Scenario A with differing metadata: 603 from two providers and an item without
\* an identifier between them; only the first 603 is kept.
C2_Witness ==
    /\ phase = "fetched"
    /\ items = <<ItemA, ItemD, ItemA2>>
    /\ unique_items = <<ItemA>>

-----------------------------------------------------------------------------
(* Properties of _apply_filters *)

\* a bound of the filter spec that is configured, on a field the item carries,
\* and that the item's value lies outside of (bounds are inclusive)
ViolatesBound(item, f) ==
    \/ f.year_gte # None /\ item.year # None /\ item.year < f.year_gte
    \/ f.year_lte # None /\ item.year # None /\ item.year > f.year_lte
    \/ f.vote_average_gte # None /\ item.vote_average # None
          /\ item.vote_average < f.vote_average_gte
    \/ f.critic_rating_gte # None /\ item.vote_average # None
          /\ item.vote_average < f.critic_rating_gte
    \/ f.tmdb_vote_count_gte # None /\ item.vote_count # None
          /\ item.vote_count < f.tmdb_vote_count_gte
    \/ item.original_country # NoneStr /\ item.original_country \in f.country_not
    \/ item.original_country # NoneStr /\ item.original_country \in f.origin_country_not

\* C5: with no size limit in the way, _apply_filters drops an item if and only if
\* a present field of it violates a configured bound, whatever the field's value.
C5_DropIffViolates ==
    (phase = "filtered" /\ config.limit = None) =>
        \A i \in 1..Len(unique_items) :
            (unique_items[i] \notin Range(filtered))
                <=> ViolatesBound(unique_items[i], config.filters)

\* s is t with some items left out, the others in t's order
RECURSIVE IsSubseqFrom(_, _, _, _)
IsSubseqFrom(s, t, i, j) ==
    IF i > Len(s) THEN TRUE
    ELSE IF j > Len(t) THEN FALSE
    ELSE IF s[i] = t[j] THEN IsSubseqFrom(s, t, i + 1, j + 1)
    ELSE IsSubseqFrom(s, t, i, j + 1)

IsSubseq(s, t) == IsSubseqFrom(s, t, 1, 1)

\* the positions of the input that the filter's bounds let through
PassingPositions == {i \in 1..Len(unique_items) : Keeps(unique_items[i], config.filters)}

\* C6: the result of _apply_filters is a subsequence of its input; with a size
\* limit it is the first min(limit, n) of the n items that pass the bounds (no
\* item that passes is skipped in favour of a later one), never more than limit.
C6_SubsequenceThenPrefix ==
    phase = "filtered" =>
        /\ IsSubseq(filtered, unique_items)
        /\ Range(filtered) \subseteq {unique_items[i] : i \in PassingPositions}
        /\ \A i, j \in 1..Len(unique_items) :
              (i < j /\ i \in PassingPositions /\ unique_items[j] \in Range(filtered))
                  => unique_items[i] \in Range(filtered)
        /\ config.limit = None => Len(filtered) = Cardinality(PassingPositions)
        /\ config.limit # None =>
              /\ Len(filtered) = Min(config.limit, Cardinality(PassingPositions))
              /\ Len(filtered) <= config.limit

\* three items pass, the limit is 2, and an item dropped by the year bound stood
\* between them: the result is the first two that pass
C6_Witness ==
    /\ phase = "filtered"
    /\ config.limit = 2
    /\ config.filters.year_lte = 2020
    /\ unique_items = <<ItemA, ItemC, ItemB>>
    /\ filtered = <<ItemA, ItemB>>

-----------------------------------------------------------------------------
(* Properties of _should_run_today *)

\* the weekday() number a configured day name denotes, 7 when it names no day
ConfiguredWeekday(s) ==
    CASE s \in {"monday", "Monday", "MONDAY"} -> 0
      [] s \in {"wednesday"} -> 2
      [] s \in {"friday", "Friday", "FRIDAY"} -> 4
      [] s \in {"sunday", "Sunday", "SUNDAY"} -> 6
      [] s \in {NoneStr, ""} -> 6
      [] OTHER -> 7

\* C7: the gate is true on every day for daily, on no day for never, for weekly
\* exactly on the configured weekday (Sunday when none is configured), for monthly
\* exactly on the configured day of the month (1 when none is configured), hence
\* never in a month shorter than the configured day.
C7_ScheduleGate ==
    phase = "gated" =>
        /\ schedule.schedule_type = "daily" => gate_result
        /\ schedule.schedule_type = "never" => ~gate_result
        /\ schedule.schedule_type = "weekly" =>
              (gate_result <=> today.weekday = ConfiguredWeekday(schedule.day_of_week))
        /\ schedule.schedule_type = "monthly" =>
              /\ gate_result <=>
                    today.day = (IF schedule.day_of_month = None THEN 1
                                 ELSE schedule.day_of_month)
              /\ schedule.day_of_month > MonthLen(today.month) => ~gate_result

\* the last day of April under a monthly schedule for the 31st: the gate is closed
C7_Witness ==
    /\ phase = "gated"
    /\ schedule.schedule_type = "monthly"
    /\ schedule.day_of_month = 31
    /\ today.month = 4
    /\ today.day = 30
    /\ ~gate_result

-----------------------------------------------------------------------------
(* sync_collection *)

\* C1: whenever sync_collection has computed its changes, to_add and to_remove are
\* disjoint and removing to_remove from the current members and adding to_add gives
\* exactly the target set.
C1_SyncDiff ==
    (phase = "synced" /\ sync.diffed) =>
        /\ sync.to_add \cap sync.to_remove = {}
        /\ (sync.current_ids \ sync.to_remove) \cup sync.to_add = sync.target_ids

\* current {a, b, c} against target {b, c, d}: add d, remove a
C1_Witness ==
    /\ phase = "synced"
    /\ sync.diffed
    /\ sync.current_ids = {"a", "b", "c"}
    /\ sync.target_ids = {"b", "c", "d"}
    /\ sync.to_add = {"d"}
    /\ sync.to_remove = {"a"}

\* C4: a sync_collection call with dry_run set returns (0, 0), requests nothing of
\* Jellyfin, Radarr or Sonarr, and leaves the three services as they were.
C4_DryRunFrame ==
    [][(dry_run /\ phase = "built" /\ phase' = "synced") =>
          /\ sync'.returned
          /\ ~sync'.raised
          /\ sync'.result = <<0, 0>>
          /\ calls' = <<>>
          /\ arr_requests' = <<>>
          /\ jellyfin' = jellyfin
          /\ radarr' = radarr
          /\ sonarr' = sonarr]_vars

\* a dry run on a collection that would have added b, removed a and requested a film
C4_Witness ==
    /\ dry_run
    /\ phase = "synced"
    /\ jellyfin.collections = <<OtherBoxSet, TopBoxSet({"a"})>>
    /\ collection.items = <<MatchedItem("b"), MissingItem(1)>>
    /\ sync.result = <<0, 0>>
    /\ calls = <<>>
    /\ arr_requests = <<>>
    /\ failed = {}

-----------------------------------------------------------------------------
(* Runner.run *)

\* every configured collection with its library
Entries ==
    UNION {{[library |-> AllCollections[i].library, config |-> AllCollections[i].configs[j]] :
                j \in 1..Len(AllCollections[i].configs)} : i \in 1..Len(AllCollections)}

\* the libraries Jellyfin lists
ListedLibraries == {jellyfin.libraries[i].Name : i \in 1..Len(jellyfin.libraries)}

\* the libraries the run was asked for
SelectedLibraries ==
    {e.library : e \in {x \in Entries : libraries = <<>> \/ x.library \in Names(libraries)}}

\* the entry passes the library filter and the collection name filter
Selected(e) ==
    /\ e.library \in SelectedLibraries
    /\ collections = <<>> \/ e.config.name \in Names(collections)

\* the collection was built and synced, or that was tried and raised
Processed(name) == outcomes[name] \in {"ok", "error"}

\* the gate lets the entry through in this run
DueToday(e) == scheduled => ShouldRunToday(e.config.schedule, today)

\* C3: every collection whose build or sync raised counts as exactly one error and
\* not as updated, the run is never left because of it, and at the end of the run
\* every collection that passes the filters and the gate in a listed library has
\* been processed.
C3_ErrorIsolation ==
    /\ stats.errors = Cardinality({n \in CollectionNames : outcomes[n] = "error"})
                      + Cardinality({l \in DOMAIN lib_outcomes : lib_outcomes[l] = "unresolved"})
    /\ stats.collections_updated = Cardinality({n \in CollectionNames : outcomes[n] = "ok"})
    /\ pc = "raised" => \A n \in CollectionNames : outcomes[n] = "none"
    /\ pc = "done" =>
          \A e \in Entries :
              (Selected(e) /\ e.library \in ListedLibraries /\ DueToday(e))
                  => Processed(e.config.name)

\* three collections of one library, the second fails: errors = 1, updated = 2
C3_Witness ==
    /\ pc = "done"
    /\ outcomes["Trending"] = "ok"
    /\ outcomes["Popular"] = "error"
    /\ outcomes["Never"] = "ok"
    /\ outcomes["Shows"] = "none"
    /\ stats.errors = 1
    /\ stats.collections_updated = 2

\* C8: a manual run never calls the gate and processes every collection that passes
\* the two name filters in a listed library; a scheduled run processes a collection
\* only after the gate was called for it and returned true.
C8_ManualBypassesGate ==
    /\ ~scheduled => gate_calls = {}
    /\ (~scheduled /\ pc = "done") =>
          \A e \in Entries :
              (Selected(e) /\ e.library \in ListedLibraries) => Processed(e.config.name)
    /\ scheduled =>
          \A e \in Entries :
              Processed(e.config.name) =>
                  /\ e.config.name \in gate_calls
                  /\ ShouldRunToday(e.config.schedule, today)

\* a manual run has synced the collection whose schedule type is never
C8_Witness ==
    /\ ~scheduled
    /\ pc = "done"
    /\ Never.schedule.schedule_type = "never"
    /\ outcomes["Never"] = "ok"
    /\ gate_calls = {}

\* C9: no collection of a library Jellyfin does not list is ever built or synced,
\* and at the end of the run each such library that was asked for counts as one
\* error beside the collections that raised, while the collections of the listed
\* libraries have been processed.
C9_UnresolvedLibrarySkipped ==
    /\ \A e \in Entries : e.library \notin ListedLibraries => outcomes[e.config.name] = "none"
    /\ pc = "done" =>
          /\ stats.errors = Cardinality({n \in CollectionNames : outcomes[n] = "error"})
                            + Cardinality(SelectedLibraries \ ListedLibraries)
          /\ \A e \in Entries :
                (Selected(e) /\ e.library \in ListedLibraries /\ DueToday(e))
                    => Processed(e.config.name)

\* Films, with three collections, is not listed: one error, and Series is synced
C9_Witness ==
    /\ pc = "done"
    /\ libraries = <<>>
    /\ collections = <<>>
    /\ ListedLibraries = {"Series"}
    /\ \A n \in {"Trending", "Popular", "Never"} : outcomes[n] = "none"
    /\ outcomes["Shows"] = "ok"
    /\ stats.errors = 1

\* C10: once get_libraries has answered, the run reaches its end: the run-end
\* notification carries the final statistics and they are returned.
C10_RunCompletes ==
    (pc = "library") ~>
        (/\ pc = "done"
         /\ notifications # <<>>
         /\ notifications[Len(notifications)].kind = "run_end"
         /\ notifications[Len(notifications)].stats = stats)

\* every collection of the run failed and the run ended with four errors counted
C10_Witness ==
    /\ pc = "done"
    /\ \A n \in CollectionNames : outcomes[n] = "error"
    /\ stats.errors = 4
    /\ stats.collections_updated = 0
    /\ notifications[Len(notifications)].kind = "run_end"
    /\ notifications[Len(notifications)].stats = stats

-----------------------------------------------------------------------------
(* Runner.run: what a failing collaborator does to a collection *)

\* this step processed collection n: it was built and synced, or that raised
ProcessedStep(n) == outcomes[n] = "none" /\ outcomes'[n] \in {"ok", "error"}

\* the ways a request to Radarr or Sonarr fails
AcquisitionFailures == {<<"arr_get", "raise">>, <<"arr_post", "raise">>, <<"arr_post", "status">>}

\* the ways an add-members or remove-members write fails
WriteFailures ==
    {<<"add_to_collection", "status">>, <<"add_to_collection", "raise">>,
     <<"remove_from_collection", "status">>, <<"remove_from_collection", "raise">>}

\* C11: a collection in whose processing nothing but a request to an acquisition
\* manager failed is counted as updated, its added and removed counts are
\* accumulated, and the error count stays as it was.
C11_AcquisitionFailureTolerated ==
    [][\A n \in CollectionNames :
          (ProcessedStep(n) /\ failed' # {} /\ failed' \subseteq AcquisitionFailures) =>
              /\ outcomes'[n] = "ok"
              /\ stats'.collections_updated = stats.collections_updated + 1
              /\ stats'.items_added >= stats.items_added
              /\ stats'.items_removed >= stats.items_removed
              /\ stats'.errors = stats.errors]_vars

\* C12: a collection in whose processing an add-members or remove-members write
\* failed is counted as one error and not as updated, its counts are not
\* accumulated, and an error notification is requested for it.
C12_WriteFailureCounted ==
    [][\A n \in CollectionNames :
          (ProcessedStep(n) /\ failed' \cap WriteFailures # {}) =>
              /\ outcomes'[n] = "error"
              /\ stats' = [stats EXCEPT !.errors = @ + 1]
              /\ notifications' # notifications
              /\ notifications'[Len(notifications')].kind = "error"
              /\ notifications'[Len(notifications')].name = n]_vars

-----------------------------------------------------------------------------
(* CollectionBuilder._add_missing_to_arr as seen from a run *)

\* the collection processed last was built and synced without an exception
LastSynced ==
    /\ phase = "run"
    /\ config.name \in CollectionNames
    /\ outcomes[config.name] = "ok"

\* the items of the last collection that are not in the library, in order
MissingOfLast == SelectSeq(collection.items, LAMBDA item : ~item.in_library)

\* the media kind of the last collection: its first item carries a TVDB identifier
LastIsSeries == collection.items # <<>> /\ collection.items[1].tvdb_id # None

\* the acquisition requests are, one for one and in order, the items its
RequestsMatch(its) ==
    /\ Len(arr_requests) = Len(its)
    /\ \A i \in 1..Min(Len(arr_requests), Len(its)) :
          /\ arr_requests[i].manager = (IF LastIsSeries THEN "sonarr" ELSE "radarr")
          /\ arr_requests[i].id = (IF LastIsSeries THEN its[i].tvdb_id ELSE its[i].tmdb_id)

\* the missing items that carry the identifier of the collection's kind
RequestableOfLast ==
    SelectSeq(MissingOfLast,
              LAMBDA item : Truthy(IF LastIsSeries THEN item.tvdb_id ELSE item.tmdb_id))

LibraryNameOf(n) ==
    (CHOOSE e \in Range(AllCollections) :
        n \in {e.configs[i].name : i \in 1..Len(e.configs)}).library

\* the last collection processed got through every provider call
LastFetched ==
    /\ phase = "run"
    /\ config.name \in CollectionNames
    /\ outcomes[config.name] \in {"ok", "error"}
    /\ failed \cap {<<"fetch_1", "raise">>, <<"fetch_2", "raise">>} = {}

\* the sources of a definition that _fetch_items reads, in the fixed order of its blocks
FixedOrderSources(cfg) ==
    SelectSeq(<<"tmdb_trending_weekly", "tmdb_trending_daily", "tmdb_popular",
                "tmdb_discover", "trakt_trending", "trakt_popular", "trakt_chart">>,
              LAMBDA source : source \in Range(cfg.declared))

C15_FetchFailureAborts ==
    [][\A n \in CollectionNames : \A k \in 1..Len(FetchCalls) :
          (ProcessedStep(n) /\ <<FetchCalls[k], "raise">> \in failed') =>
             /\ fetches' = SubSeq(FixedOrderSources(config'), 1, k)
             /\ failed' = {<<FetchCalls[k], "raise">>}
             /\ collection' = EmptyCollection
             /\ jellyfin' = jellyfin
             /\ radarr' = radarr
             /\ sonarr' = sonarr
             /\ arr_requests' = <<>>
             /\ outcomes'[n] = "error"
             /\ stats' = [stats EXCEPT !.errors = @ + 1]
             /\ notifications' # <<>>
             /\ notifications'[Len(notifications')].kind = "error"
             /\ notifications'[Len(notifications')].name = n]_vars

C15_Witness ==
    /\ phase = "run"
    /\ config.name = "Trending"
    /\ outcomes["Trending"] = "error"
    /\ failed = {<<"fetch_2", "raise">>}
    /\ fetches = <<"tmdb_trending_weekly", "trakt_trending">>
    /\ collection = EmptyCollection
    /\ arr_requests = <<>>
    /\ stats.errors = 1

\* C16: the deduplication of _fetch_items is idempotent: applied to its own output it
\* returns that output, and the provider outputs concatenated with themselves
\* deduplicate to the same sequence as the provider outputs taken once
C16_DedupeIdempotent ==
    phase \in {"fetched", "filtered"} =>
        /\ Dedupe(unique_items) = unique_items
        /\ Dedupe(items \o items) = unique_items

C16_Witness ==
    /\ phase = "fetched"
    /\ items = <<ItemA, ItemB, ItemA2>>
    /\ unique_items = <<ItemA, ItemB>>
    /\ Dedupe(items \o items) = <<ItemA, ItemB>>

\* the identifiers of the items of both libraries
ServerItemIds == LibIds \cup {"s"}

\* the library identifiers of the matched items of the collection being synced
MatchedIds ==
    {collection.items[i].jellyfin_id :
        i \in {k \in 1..Len(collection.items) : collection.items[k].matched}}

\* the members the server holds for BoxSet id before the call
MembersBefore(id) ==
    IF id \in DOMAIN jellyfin.collections THEN jellyfin.collections[id].Items ELSE {}

\* C17: every identifier passed to add_to_collection is the library identifier of a
\* matched item of the collection, every identifier passed to remove_from_collection was
\* a member of the BoxSet before the call, and an unmatched item puts nothing in either
C17_OnlyLibraryIds ==
    [][(phase = "built" /\ phase' = "synced") =>
          \A i \in 1..Len(calls') :
             /\ calls'[i].op = "add_to_collection" =>
                   /\ calls'[i].ids \subseteq MatchedIds
                   /\ calls'[i].ids \subseteq LibIds
             /\ calls'[i].op = "remove_from_collection" =>
                   /\ calls'[i].ids \subseteq MembersBefore(calls'[i].coll)
                   /\ calls'[i].ids \subseteq ServerItemIds]_vars

C17_Witness ==
    /\ phase = "synced"
    /\ ~dry_run
    /\ \E k \in 1..Len(collection.items) : ~collection.items[k].matched
    /\ \E i \in 1..Len(calls) :
          calls[i].op = "add_to_collection" /\ calls[i].ids = {"c", "d"}
    /\ \E i \in 1..Len(calls) :
          calls[i].op = "remove_from_collection" /\ calls[i].ids = {"a"}

\* the notifications a step requested
Requested == SubSeq(notifications', Len(notifications) + 1, Len(notifications'))

\* C18: whatever the webhook does, every send returns a boolean after at most one POST
\* and nothing leaves the notifier: run() stops early only when get_libraries raised,
\* a collection counts as an error only when a collaborator of its build or sync failed,
\* and the run-end step returns the statistics as they stood
C18_NotifierNeverRaises ==
    [][/\ \A i \in 1..Len(Requested) :
             /\ Requested[i].delivered \in BOOLEAN
             /\ Requested[i].delivered => webhook = "204"
             /\ Requested[i].posts \in {0, 1}
       /\ (pc = "start" /\ pc' = "raised") => failed' = {<<"get_libraries", "raise">>}
       /\ pc = "collection" => pc' \in {"collection", "library"}
       /\ \A n \in CollectionNames :
             ProcessedStep(n) =>
                /\ stats'.errors = stats.errors + (IF outcomes'[n] = "error" THEN 1 ELSE 0)
                /\ outcomes'[n] = "error" => failed' # {}
       /\ (pc = "library" /\ lib_idx > Len(all_collections)) =>
             (pc' = "done" /\ stats' = stats)]_vars

C18_Witness ==
    /\ pc = "done"
    /\ webhook = "exception"
    /\ Len(notifications) >= 4
    /\ \A i \in 1..Len(notifications) :
          ~notifications[i].delivered /\ notifications[i].posts = 1
    /\ \E i \in 1..Len(notifications) : notifications[i].kind = "error"
    /\ \E i \in 1..Len(notifications) : notifications[i].kind = "changes"
    /\ stats.collections_updated >= 1
    /\ stats.errors = 1

\* the names of the collections a step requested a change notification for
ChangesRequested ==
    {Requested[i].name : i \in {k \in 1..Len(Requested) : Requested[k].kind = "changes"}}

\* the names of the collections a change notification has been requested for
ChangesNotified ==
    {notifications[i].name :
        i \in {k \in 1..Len(notifications) : notifications[k].kind = "changes"}}

\* C19: a change notification is requested only in the step that synced its collection,
\* only when the sync returned, and only when it returned added > 0 or removed > 0
C19_ChangesOnlyWhenChanged ==
    [][\A n \in ChangesRequested :
          /\ n \in CollectionNames
          /\ ProcessedStep(n)
          /\ outcomes'[n] = "ok"
          /\ stats'.collections_updated = stats.collections_updated + 1
          /\ \/ stats'.items_added > stats.items_added
             \/ stats'.items_removed > stats.items_removed]_vars

C19_Witness ==
    /\ pc = "done"
    /\ "Trending" \in ChangesNotified
    /\ \E n \in CollectionNames : outcomes[n] = "ok" /\ n \notin ChangesNotified
    /\ \E n \in CollectionNames : outcomes[n] = "error" /\ n \notin ChangesNotified
    /\ stats.items_added + stats.items_removed > 0

\* how many notifications of a kind have been requested
CountOf(kind) ==
    Cardinality({i \in 1..Len(notifications) : notifications[i].kind = kind})

\* run() is over: it returned its statistics, or an exception left it
RunOver == pc \in {"done", "raised"}

\* C20: the run-start notification is requested exactly once and before any collection
\* is processed, the run-end notification exactly once and after the last collection,
\* in every run, and it carries the statistics the run returns
C20_StartAndEndOnce ==
    /\ pc = "start" =>
          (notifications = <<>> /\ \A n \in CollectionNames : outcomes[n] = "none")
    /\ pc # "start" =>
          (CountOf("run_start") = 1 /\ notifications[1].kind = "run_start")
    /\ ~RunOver => CountOf("run_end") = 0
    /\ RunOver =>
          /\ CountOf("run_end") = 1
          /\ notifications[Len(notifications)].kind = "run_end"
          /\ notifications[Len(notifications)].stats = stats

\* the label the requests of the collection being synced are to carry
ConfiguredTag ==
    IF TruthyStr(collection.config.item_radarr_tag)
    THEN collection.config.item_radarr_tag
    ELSE radarr.default_tag

\* C21: every title a sync registers with Radarr is registered under the tag configured
\* for its collection, also when the client served a differently tagged collection before
C21_RequestsCarryTag ==
    [][\A t \in radarr'.titles \ radarr.titles :
          /\ t.tags # {}
          /\ \A id \in t.tags :
                /\ id \in 1..Len(radarr'.tags)
                /\ Lower(radarr'.tags[id]) = Lower(ConfiguredTag)]_vars

\* the titles a manager held before the step
TitlesBefore(manager) == IF manager = "sonarr" THEN sonarr.titles ELSE radarr.titles

\* the titles it holds after the step
TitlesAfter(manager) == IF manager = "sonarr" THEN sonarr'.titles ELSE radarr'.titles

\* C22: a request for a title the manager already holds, once the manager has answered
\* the existence check, issues no POST (neither for the title nor for a tag), returns the
\* record the manager held, which stays as it was, and does not raise
C22_RegisteredIsNoOp ==
    [][\A i \in 1..Len(arr_requests') :
          LET q == arr_requests'[i]
          IN ((\E t \in TitlesBefore(q.manager) : t.id = q.id)
                /\ <<"arr_get", "raise">> \notin failed') =>
                /\ q.posts = 0
                /\ ~q.raised
                /\ q.result \in TitlesBefore(q.manager)
                /\ q.result.id = q.id
                /\ q.result \in TitlesAfter(q.manager)
                /\ Cardinality({t \in TitlesAfter(q.manager) : t.id = q.id}) = 1]_vars

\* title 702, held under tag 1, was requested for a collection tagged "films" after
\* title 701 was registered under the new tag 2
C22_Witness ==
    /\ phase = "synced"
    /\ Len(arr_requests) = 2
    /\ arr_requests[1].id = 701 /\ arr_requests[1].posts = 2
    /\ arr_requests[2].id = 702 /\ arr_requests[2].posts = 0
    /\ arr_requests[2].result = [id |-> 702, tags |-> {1}]
    /\ radarr.tags = <<"jfc", "films">>
    /\ [id |-> 702, tags |-> {1}] \in radarr.titles
    /\ sync.returned

\* the calls of one operation among the calls of the step
CallsOf(op) == SelectSeq(calls', LAMBDA c : c.op = op)

\* C23: a sync that is not a dry run and returns, returns the number of matched
\* identifiers the BoxSet did not hold and the number of members that are not targets,
\* both counted on the membership the server held when the sync began
C23_ReturnsDiffCounts ==
    [][(phase = "built" /\ phase' = "synced" /\ ~dry_run /\ sync'.returned) =>
          LET before == MembersBefore(sync'.jellyfin_id)
          IN /\ sync'.result = <<Cardinality(MatchedIds \ before),
                                 Cardinality(before \ MatchedIds)>>
             /\ (before = {"a", "b", "c"} /\ MatchedIds = {"b", "c", "d"}) =>
                   /\ Len(CallsOf("add_to_collection")) = 1
                   /\ CallsOf("add_to_collection")[1].ids = {"d"}
                   /\ Len(CallsOf("remove_from_collection")) = 1
                   /\ CallsOf("remove_from_collection")[1].ids = {"a"}
                   /\ sync'.result = <<1, 1>>]_vars

\* scenario B: members {a, b, c}, targets {b, c, d}
C23_Witness ==
    /\ phase = "synced"
    /\ ~dry_run
    /\ sync.returned
    /\ sync.current_ids = {"a", "b", "c"}
    /\ MatchedIds = {"b", "c", "d"}
    /\ \E i \in 1..Len(calls) : calls[i].op = "add_to_collection" /\ calls[i].ids = {"d"}
    /\ \E i \in 1..Len(calls) :
          calls[i].op = "remove_from_collection" /\ calls[i].ids = {"a"}
    /\ sync.result = <<1, 1>>
    /\ jellyfin.collections[2].Items = {"b", "c", "d"}

\* the BoxSets the server held before the step under the collection's name in its library
SameNamed ==
    {i \in 1..Len(jellyfin.collections) :
        /\ jellyfin.collections[i].Name = collection.config.name
        /\ jellyfin.collections[i].Library = collection.library_name}

\* C24: once get_collections has answered, create_collection is called exactly when the
\* library being processed holds no BoxSet of the collection's name; otherwise the
\* handle is the first such BoxSet; a BoxSet of another library is never the handle
C24_HandleByNameInLibrary ==
    [][(phase = "built" /\ phase' = "synced" /\ ~dry_run
          /\ <<"get_collections", "raise">> \notin failed') =>
          /\ (Len(CallsOf("create_collection")) = 1) <=> (SameNamed = {})
          /\ Len(CallsOf("create_collection")) <= 1
          /\ SameNamed # {} =>
                sync'.jellyfin_id = jellyfin.collections[MinOf(SameNamed)].Id
          /\ (sync'.jellyfin_id \in DOMAIN jellyfin.collections) =>
                jellyfin.collections[sync'.jellyfin_id].Library = collection.library_name]_vars

\* the positions of the calls of one operation among the calls of the step
PositionsOf(op) == {i \in 1..Len(calls') : calls'[i].op = op}

\* C25: in a sync that is not a dry run, add_to_collection is called at most once, only
\* with a non-empty set that is exactly target - current; remove_from_collection at most
\* once, only with a non-empty set that is exactly current - target; a sync that returns
\* has made each call exactly when its set is non-empty; the membership read comes
\* before both calls and the addition before the removal
C25_OneBatchedCallEach ==
    [][(phase = "built" /\ phase' = "synced" /\ ~dry_run) =>
          LET before == MembersBefore(sync'.jellyfin_id)
              to_add == MatchedIds \ before
              to_remove == before \ MatchedIds
              adds == PositionsOf("add_to_collection")
              removes == PositionsOf("remove_from_collection")
              reads == PositionsOf("get_collection_items")
          IN /\ Cardinality(adds) <= 1
             /\ Cardinality(removes) <= 1
             /\ \A i \in adds : calls'[i].ids = to_add /\ to_add # {}
             /\ \A i \in removes : calls'[i].ids = to_remove /\ to_remove # {}
             /\ sync'.returned =>
                   /\ (adds # {}) <=> (to_add # {})
                   /\ (removes # {}) <=> (to_remove # {})
             /\ \A i \in adds \cup removes : \E k \in reads : k < i
             /\ \A i \in adds : \A j \in removes : i < j]_vars

C25_Witness ==
    /\ phase = "synced"
    /\ ~dry_run
    /\ sync.returned
    /\ Len(calls) = 6
    /\ calls[1].op = "get_collections"
    /\ calls[2].op = "get_collection_items"
    /\ calls[3] = [op |-> "add_to_collection", coll |-> 2, ids |-> {"c", "d"}]
    /\ calls[4] = [op |-> "remove_from_collection", coll |-> 2, ids |-> {"a", "b"}]
    /\ calls[5].op = "get_collection"
    /\ calls[6].op = "update_item"

\* C26: after every sync that is not a dry run and returns, whatever it added or
\* removed, the BoxSet's description and sort title are those of the definition
C26_MetadataOverwritten ==
    [][(phase = "built" /\ phase' = "synced" /\ ~dry_run /\ sync'.returned) =>
          LET box == jellyfin'.collections[sync'.jellyfin_id]
          IN /\ box.Overview = collection.config.summary
             /\ box.SortName = collection.config.sort_title]_vars

\* the manager the collection a step built is dispatched to: Sonarr exactly when its
\* first item carries a TVDB identifier
ManagerOfBuilt ==
    IF collection'.items # <<>> /\ collection'.items[1].tvdb_id # None
    THEN "sonarr" ELSE "radarr"

\* C27: all the acquisition requests of one sync go to one manager, the one that the
\* first item of the collection decides, whatever identifiers the other items carry
C27_OneManagerPerSync ==
    [][\A n \in CollectionNames :
          ProcessedStep(n) =>
             /\ \A i \in 1..Len(arr_requests') : arr_requests'[i].manager = ManagerOfBuilt
             /\ ManagerOfBuilt = "sonarr" => radarr' = radarr
             /\ ManagerOfBuilt = "radarr" => sonarr' = sonarr]_vars

\* the series collection holds a missing item without TVDB identifier and a missing item
\* with one: the only request went to Sonarr
C27_Witness ==
    /\ phase = "run"
    /\ config.name = "Shows"
    /\ outcomes["Shows"] = "ok"
    /\ ~dry_run
    /\ collection.items # <<>>
    /\ collection.items[1].tvdb_id = 9000
    /\ \E k \in 1..Len(collection.items) :
          /\ ~collection.items[k].in_library
          /\ collection.items[k].tvdb_id = None
          /\ collection.items[k].tmdb_id = 802
    /\ arr_requests # <<>>
    /\ \A i \in 1..Len(arr_requests) : arr_requests[i].manager = "sonarr"
    /\ \A t \in radarr.titles : t.id # 802

\* the membership calls among the calls of the step's sync
MembershipCalls ==
    SelectSeq(calls', LAMBDA c : c.op \in {"add_to_collection", "remove_from_collection"})

\* C28: a second sync_collection of the same built collection, after a non-dry-run one
\* that returned with all its writes applied, issues no membership call; when it reads
\* the membership it computes empty to_add and to_remove, and when it returns it
\* returns (0, 0)
C28_ConvergesInOneStep ==
    [][(phase = "synced" /\ phase' = "resynced" /\ ~dry_run) =>
          /\ MembershipCalls = <<>>
          /\ sync'.diffed => sync'.to_add = {} /\ sync'.to_remove = {}
          /\ sync'.returned => sync'.result = <<0, 0>>
          /\ failed' = {} => sync'.returned /\ sync'.diffed
          /\ \A i \in 1..Len(jellyfin.collections) :
                jellyfin'.collections[i].Items = jellyfin.collections[i].Items]_vars

\* the second sync returned (0, 0) on a BoxSet whose members the first one had to
\* add and to remove
C28_Witness ==
    /\ phase = "resynced"
    /\ ~dry_run
    /\ failed = {}
    /\ sync.returned
    /\ sync.result = <<0, 0>>
    /\ sync.target_ids = {"c", "d"}
    /\ sync.current_ids = {"c", "d"}
    /\ sync.jellyfin_id = 2
    /\ jellyfin.collections[2].Name = "Top"
    /\ Len(calls) = 4

-----------------------------------------------------------------------------
(* Runner.run: the statistics it returns *)

\* the collections that pass the library filter, the name filter and the schedule
\* gate in a library Jellyfin lists
Counted ==
    {e.config.name : e \in {x \in Entries : /\ Selected(x)
                                            /\ x.library \in ListedLibraries
                                            /\ DueToday(x)}}

\* the statistics count every such collection once, as updated or as an error,
\* and every unresolved library as an error
CountedOnce ==
    /\ \A n \in CollectionNames : Processed(n) <=> n \in Counted
    /\ stats.collections_updated = Cardinality({n \in Counted : outcomes[n] = "ok"})
    /\ stats.errors = Cardinality({n \in Counted : outcomes[n] = "error"})
                      + Cardinality(SelectedLibraries \ ListedLibraries)
    /\ stats.collections_updated + stats.errors
          = Cardinality(Counted) + Cardinality(SelectedLibraries \ ListedLibraries)

\* the pair the sync of this step returned to run()
ReturnedToRun ==
    SyncCollection(StartCall(jellyfin, radarr, sonarr), collection', dry_run, TRUE,
                   failed').result

\* C29: the statistics a run returns count each collection that passed the filters
\* and the gate in a resolved library once, as updated or as an error, beside one
\* error per unresolved library; items_added and items_removed start at zero and
\* grow by the pair a sync returned exactly when that collection is counted as
\* updated, so at the end they are the sums of those pairs
C29_StatsAccount ==
    [][/\ pc' = "done" => CountedOnce'
       /\ pc = "start" => stats.items_added = 0 /\ stats.items_removed = 0
       /\ \A n \in CollectionNames :
             (ProcessedStep(n) /\ outcomes'[n] = "ok") =>
                /\ stats'.collections_updated = stats.collections_updated + 1
                /\ stats'.items_added = stats.items_added + ReturnedToRun[1]
                /\ stats'.items_removed = stats.items_removed + ReturnedToRun[2]
       /\ (\A n \in CollectionNames : ~(ProcessedStep(n) /\ outcomes'[n] = "ok")) =>
             /\ stats'.collections_updated = stats.collections_updated
             /\ stats'.items_added = stats.items_added
             /\ stats'.items_removed = stats.items_removed]_vars

\* a scheduled run ended: a collection was gated, one raised, two were synced and
\* members were added and removed
C29_Witness ==
    /\ pc = "done"
    /\ scheduled
    /\ ~dry_run
    /\ \E n \in CollectionNames : outcomes[n] = "gated"
    /\ \E n \in CollectionNames : outcomes[n] = "error"
    /\ stats.collections_updated = 2
    /\ stats.errors = 1
    /\ stats.items_added > 0
    /\ stats.items_removed > 0

-----------------------------------------------------------------------------
(* Scheduler: the name registry and the jobs of the AsyncIOScheduler *)

\* the jobs held under a name
HeldAs(sch, n) == {j \in sch.held : j.name = n}

\* at most one job per name, and the registry lists exactly the jobs held
RegistryExact ==
    /\ \A n \in JobNames : Cardinality(HeldAs(scheduler, n)) <= 1
    /\ \A n \in DOMAIN jobs : \E j \in scheduler.held : j.id = jobs[n] /\ j.name = n
    /\ \A j \in scheduler.held : j.name \in DOMAIN jobs /\ jobs[j.name] = j.id

\* the number of fields of an expression: the places where a run of characters
\* other than blanks begins
FieldCount(s) == Cardinality({i \in 1..Len(s) : s[i] # " " /\ (i = 1 \/ s[i - 1] = " ")})

\* the jobs held under the other names are the same before and after the step
OthersKept(n) == \A o \in JobNames \ {n} : HeldAs(scheduler', o) = HeldAs(scheduler, o)

\* C30: after every add_cron_job and remove_job there is at most one job per name and
\* the registry lists exactly the jobs the scheduler holds; an add_cron_job that
\* returns leaves one job of that name, the new one, also when the name was
\* registered; one whose expression has not five fields raises and leaves the jobs
\* as they were; remove_job returns true exactly when the name was registered, and
\* the name is not registered afterwards
C30_OneJobPerName ==
    [][LET c == job_call'
       IN /\ RegistryExact'
          /\ (c.op = "add_cron_job" /\ ~c.raised) =>
                /\ c.job_id = c.name
                /\ c.name \in DOMAIN jobs'
                /\ Cardinality(HeldAs(scheduler', c.name)) = 1
                /\ \A j \in HeldAs(scheduler', c.name) :
                      /\ Len(j.trigger) = 5
                      /\ FieldCount(c.cron_expression) = 5
                /\ OthersKept(c.name)
          /\ (c.op = "add_cron_job" /\ FieldCount(c.cron_expression) # 5) =>
                /\ c.raised
                /\ jobs' = jobs
                /\ scheduler'.held = scheduler.held
          /\ c.op = "remove_job" =>
                /\ c.removed <=> c.name \in DOMAIN jobs
                /\ c.name \notin DOMAIN jobs'
                /\ HeldAs(scheduler', c.name) = {}
                /\ OthersKept(c.name)]_vars

\* "daily" was added with " 0  3 * * * " beside two other jobs: it is held once, with
\* the five fields of the expression
C30_Witness ==
    /\ job_call.op = "add_cron_job"
    /\ job_call.name = "daily"
    /\ ~job_call.raised
    /\ job_call.cron_expression[1] = " "
    /\ DOMAIN jobs = JobNames
    /\ Cardinality(scheduler.held) = 3
    /\ \E j \in scheduler.held :
          j.name = "daily" /\ j.trigger = <<<<"0">>, <<"3">>, <<"*">>, <<"*">>, <<"*">>>>

====
